---- MODULE Spec2Model ----
(***************************************************************************)
(* The Computer-Use agent loop of max-doc-ai:                              *)
(*   scripts/screenshot/computer_use_client.py  ComputerUseClient          *)
(*   scripts/screenshot/gemini_client.py        GeminiComputerUseClient    *)
(*   scripts/screenshot/computer_use_tools.py   ComputerUseTool            *)
(* execute_task is modelled with one step per suspension point of the      *)
(* loop (the model call, each awaited executor call) and execute_action    *)
(* with its ten handlers as operators over the request and the host.       *)
(*                                                                         *)
(* Python strings built by f-strings are sequences of string tokens, so    *)
(* that "" is <<>>, truthiness is non-emptiness and a prefix is a head.    *)
(***************************************************************************)
EXTENDS Integers, Sequences, FiniteSets, TLC

VARIABLES
    client,               \* which client class execute_task is called on
    tool_executor,        \* self.tool_executor is set (not None)
    PYAUTOGUI_AVAILABLE,  \* module flag of computer_use_tools
    display_width,        \* virtual display advertised to the model
    display_height,
    screen_size,          \* pyautogui.size(): the real screen <<w, h>>
    grab_size,            \* size of the image ImageGrab.grab() returns
    max_iterations,       \* argument of execute_task
    verbose,              \* argument of execute_task
    pc,                   \* position of the execute_task coroutine
    messages,             \* local: conversation
    screenshots,          \* local: screenshots captured
    iterations,           \* local: loop counter
    response,             \* local: response.content of the current turn
    block_idx,            \* local: position of `for block in response.content`
    tool_results,         \* local
    has_tool_use,         \* local
    function_calls,       \* local of the Gemini loop
    tool_outputs,         \* local of the Gemini loop
    has_screenshot,       \* local of the Gemini loop
    current_parts,        \* local of the Gemini loop: the next message to send
    success,              \* local of the Gemini loop
    task,                 \* which of two concurrent tasks the variables above show
    other,                \* the task that is not running: its instances and frame
    auth_credentials,     \* ComputerUseScreenshotCapturer.auth_credentials
    session_active,       \* ComputerUseScreenshotCapturer.session_active
    authenticated,        \* ComputerUseScreenshotCapturer.authenticated
    files,                \* the files under output_dir: path -> bytes
    method,               \* the capturer method being called and its outcome
    sync_state,           \* state['articles'] of the sync state file
    provider_log,         \* observer: every provider call of kb sync, in order
    result,               \* the dict execute_task returned
    error,                \* the exception execute_task raised
    api_log,              \* observer: outcome of every model call, in order
    exec_log,             \* observer: every execute_action call, in order
    clock                 \* observer: number of calls started so far

vars == <<client, tool_executor, PYAUTOGUI_AVAILABLE, display_width,
          display_height, screen_size, grab_size, max_iterations, verbose, pc, messages,
          screenshots, iterations, response, block_idx, tool_results,
          has_tool_use, function_calls, tool_outputs, has_screenshot,
          current_parts, success, result, error, api_log, exec_log, clock,
          task, other, auth_credentials, session_active, authenticated, files,
          method, sync_state, provider_log>>

\* what lies outside the agent loop: the capturer and the kb sync
outer == <<auth_credentials, session_active, authenticated, files, method,
           sync_state, provider_log>>

host == <<client, tool_executor, PYAUTOGUI_AVAILABLE, display_width,
          display_height, screen_size, grab_size, max_iterations, verbose,
          task, other, outer>>

gemini == <<function_calls, tool_outputs, has_screenshot, current_parts, success>>

locals == <<messages, screenshots, iterations, response, block_idx,
            tool_results, has_tool_use>>

(***************************************************************************)
(* Bounds of the model.                                                    *)
(***************************************************************************)
\* largest max_iterations a caller passes
MaxIter == 3
\* most blocks in one model response
MaxBlocks == 2
\* most executor calls the model requests over one task
MaxCalls == 3
\* largest display dimension
MaxDim == 3
\* most direct execute_action calls on one executor
MaxToolCalls == 1
\* largest max_iterations where the two clients are run side by side
MaxEntryIter == 1

(***************************************************************************)
(* Python helpers.                                                         *)
(***************************************************************************)
Min(a, b) == IF a < b THEN a ELSE b
Max(a, b) == IF a > b THEN a ELSE b

\* dict.get(key, default)
Get(d, key, default) == IF key \in DOMAIN d THEN d[key] ELSE default

\* {}
EmptyDict == [k \in {} |-> k]

\* a mutation of bool(s): every value counts as true
TruthyAlways(s) == TRUE

\* bool(s) of a str or list
Truthy(s) == s # <<>>

\* int(): truncation toward zero of the quotient a / b, b > 0
TruncDiv(a, b) == IF a >= 0 THEN a \div b ELSE -((-a) \div b)

\* a value returned by a coroutine, or the exception it raised (type, str(e))
Return(v) == [ok |-> TRUE, type |-> "str", value |-> v, backend |-> <<>>]
Raised(t, m) == [ok |-> FALSE, type |-> t, value |-> m, backend |-> <<>>]

\* the same outcome after the automation calls `calls` were made
After(calls, outcome) == [outcome EXCEPT !.backend = calls]

\* one pyautogui / ImageGrab call
Call(op, args) == [op |-> op, args |-> args]

NoResult == [status |-> "none"]
NoError == [type |-> "none", value |-> <<>>]

(***************************************************************************)
(* ComputerUseTool: coordinate scaling and the ten handlers.  `params` is  *)
(* the request's input dict; `env` is the host at the time of the call:    *)
(*   avail   PYAUTOGUI_AVAILABLE                                           *)
(*   works   the automation or capture call of this action succeeds        *)
(*   dw, dh  self.display_width, self.display_height                       *)
(*   sw, sh  pyautogui.size()                                              *)
(*   raw     size of the image ImageGrab.grab() returns                    *)
(***************************************************************************)
\* int(v * (real / virt)): the product is computed in floating point; for
\* dimensions and coordinates up to 8 it truncates to the same integer as the
\* exact quotient v * real / virt, which is what the model computes.
ScaleAxisNoUpperClamp(v, real, virt) == Max(0, TruncDiv(v * real, virt))

ScaleAxis(v, real, virt) == Max(0, Min(TruncDiv(v * real, virt), real - 1))

_scale_coordinates(x, y, env) ==
    IF ~env.avail THEN <<x, y>>
    ELSE <<ScaleAxis(x, env.sw, env.dw), ScaleAxis(y, env.sh, env.dh)>>

\* the text Python prints for a coordinate list
CoordStr(c) == <<"(">> \o [i \in 1..Len(c) |-> ToString(c[i])] \o <<")">>

BackendError == Raised("Exception", <<"automation backend error">>)

\* base64 PNG of an image of the given size
PngBase64(w, h) == <<"PNG", ToString(w), "x", ToString(h)>>

\* a mutation of Image.resize: the image is left as it is
ResizeNoop(img, w, h) == img

\* Image.resize(size): an image of exactly that size
Resize(img, w, h) == <<w, h>>

_screenshot(params, env) ==
    IF ~env.works
    THEN After(<<Call("grab", <<>>)>>,
               Raised("RuntimeError", <<"Screenshot capture failed: ">> \o BackendError.value))
    ELSE LET screenshot == IF env.raw # <<env.dw, env.dh>>
                           THEN Resize(env.raw, env.dw, env.dh)
                           ELSE env.raw
         IN  After(<<Call("grab", <<>>)>>,
                   Return(<<"data:image/png;base64,">>
                          \o PngBase64(screenshot[1], screenshot[2])))

\* the body shared by the three click handlers and mouse_move / drag; the
\* click handlers sleep 0.3 s after the click (`settle`)
PointerAction(params, env, op, settle, simulated, done) ==
    IF ~env.avail THEN Return(<<simulated>>)
    ELSE LET coordinate == Get(params, "coordinate", <<>>) IN
         IF Len(coordinate) # 2
         THEN Raised("ValueError", <<"Invalid coordinate: ">> \o CoordStr(coordinate))
         ELSE LET scaled == _scale_coordinates(coordinate[1], coordinate[2], env) IN
              IF ~env.works THEN After(<<Call(op, scaled)>>, BackendError)
              ELSE After(<<Call(op, scaled)>> \o (IF settle THEN <<Call("sleep", <<>>)>> ELSE <<>>),
                         Return(<<done>> \o CoordStr(coordinate)))

_click(params, env) ==
    PointerAction(params, env, "click", TRUE,
                  "Click simulated (pyautogui not available)", "Clicked at ")

_right_click(params, env) ==
    PointerAction(params, env, "rightClick", TRUE,
                  "Right click simulated (pyautogui not available)", "Right clicked at ")

_double_click(params, env) ==
    PointerAction(params, env, "doubleClick", TRUE,
                  "Double click simulated (pyautogui not available)", "Double clicked at ")

_mouse_move(params, env) ==
    PointerAction(params, env, "moveTo", FALSE,
                  "Mouse move simulated (pyautogui not available)", "Moved mouse to ")

_click_drag(params, env) ==
    PointerAction(params, env, "drag", FALSE,
                  "Click drag simulated (pyautogui not available)", "Dragged to ")

\* a mutation of _type_text: the text is validated before the availability check
TypeTextValidatesFirst(params, env) ==
    LET text == Get(params, "text", <<>>) IN
    IF ~Truthy(text) THEN Raised("ValueError", <<"No text provided to type">>)
    ELSE IF ~env.avail THEN Return(<<"Text typing simulated (pyautogui not available)">>)
    ELSE IF ~env.works THEN After(<<Call("write", text)>>, BackendError)
    ELSE After(<<Call("write", text)>>, Return(<<"Typed: ">> \o text))

_type_text(params, env) ==
    IF ~env.avail THEN Return(<<"Text typing simulated (pyautogui not available)">>)
    ELSE LET text == Get(params, "text", <<>>) IN
         IF ~Truthy(text) THEN Raised("ValueError", <<"No text provided to type">>)
         ELSE IF ~env.works THEN After(<<Call("write", text)>>, BackendError)
         ELSE After(<<Call("write", text)>>,
                    Return(<<"Typed: ">> \o SubSeq(text, 1, Min(Len(text), 50))
                           \o (IF Len(text) > 50 THEN <<"...">> ELSE <<>>)))

_press_key(params, env) ==
    IF ~env.avail THEN Return(<<"Key press simulated (pyautogui not available)">>)
    ELSE LET key == Get(params, "key", <<>>) IN
         IF ~Truthy(key) THEN Raised("ValueError", <<"No key provided">>)
         ELSE LET op == IF \E i \in 1..Len(key) : key[i] = "+" THEN "hotkey" ELSE "press" IN
              IF ~env.works THEN After(<<Call(op, key)>>, BackendError)
              ELSE After(<<Call(op, key)>>, Return(<<"Pressed key: ">> \o key))

_scroll(params, env) ==
    IF ~env.avail THEN Return(<<"Scroll simulated (pyautogui not available)">>)
    ELSE LET coordinate == Get(params, "coordinate", <<env.dw \div 2, env.dh \div 2>>)
             direction == Get(params, "scroll_direction", "down")
             amount == Get(params, "scroll_amount", 3)
         IN  IF Len(coordinate) # 2
             THEN Raised("ValueError", <<"not enough values to unpack">>)
             ELSE LET scaled == _scale_coordinates(coordinate[1], coordinate[2], env)
                      scroll_amount == IF direction = "down" THEN -amount ELSE amount
                      calls == <<Call("moveTo", scaled), Call("scroll", <<scroll_amount * 100>>)>>
                  IN  IF ~env.works THEN After(calls, BackendError)
                      ELSE After(calls, Return(<<"Scrolled ", direction, " by ", ToString(amount)>>))

_wait(params, env) ==
    LET duration_ms == Get(params, "wait_duration_ms", 1000) IN
    IF duration_ms < 0
    THEN After(<<Call("sleep", <<duration_ms>>)>>,
               Raised("ValueError", <<"sleep length must be non-negative">>))
    ELSE After(<<Call("sleep", <<duration_ms>>)>>,
               Return(<<"Waited ", ToString(duration_ms), "/1000.0", "s">>))

\* the keys of action_map
ActionKinds == {"screenshot", "left_click", "type", "key", "mouse_move", "scroll",
                "wait", "right_click", "double_click", "left_click_drag"}

\* a mutation of action_map.get: an unknown kind falls back to the click handler
ActionMapGetDefaultClick(action) ==
    CASE action = "screenshot" -> "_screenshot"
      [] action = "type" -> "_type_text"
      [] action = "key" -> "_press_key"
      [] action = "mouse_move" -> "_mouse_move"
      [] action = "scroll" -> "_scroll"
      [] action = "wait" -> "_wait"
      [] action = "right_click" -> "_right_click"
      [] action = "double_click" -> "_double_click"
      [] action = "left_click_drag" -> "_click_drag"
      [] OTHER -> "_click"

\* action_map.get(action): the handler's name, or "None"
ActionMapGet(action) ==
    CASE action = "screenshot" -> "_screenshot"
      [] action = "left_click" -> "_click"
      [] action = "type" -> "_type_text"
      [] action = "key" -> "_press_key"
      [] action = "mouse_move" -> "_mouse_move"
      [] action = "scroll" -> "_scroll"
      [] action = "wait" -> "_wait"
      [] action = "right_click" -> "_right_click"
      [] action = "double_click" -> "_double_click"
      [] action = "left_click_drag" -> "_click_drag"
      [] OTHER -> "None"

\* await handler(params)
RunHandler(handler, params, env) ==
    CASE handler = "_screenshot" -> _screenshot(params, env)
      [] handler = "_click" -> _click(params, env)
      [] handler = "_type_text" -> _type_text(params, env)
      [] handler = "_press_key" -> _press_key(params, env)
      [] handler = "_mouse_move" -> _mouse_move(params, env)
      [] handler = "_scroll" -> _scroll(params, env)
      [] handler = "_wait" -> _wait(params, env)
      [] handler = "_right_click" -> _right_click(params, env)
      [] handler = "_double_click" -> _double_click(params, env)
      [] handler = "_click_drag" -> _click_drag(params, env)

\* a mutation of execute_action: a handler's exception is raised as it is
ExecuteActionReraises(action, params, env) ==
    LET handler == ActionMapGet(action) IN
    IF handler = "None"
    THEN Raised("ValueError", <<"Unknown action: ", action>>) @@ [handler |-> "None"]
    ELSE RunHandler(handler, params, env) @@ [handler |-> handler]

\* ComputerUseTool.execute_action: the outcome, with the handler that ran
execute_action(action, params, env) ==
    LET handler == ActionMapGet(action) IN
    IF handler = "None"
    THEN Raised("ValueError", <<"Unknown action: ", action>>) @@ [handler |-> "None"]
    ELSE LET out == RunHandler(handler, params, env) IN
         (IF out.ok THEN out
          ELSE After(out.backend,
                     Raised("RuntimeError", <<"Failed to execute ", action, ": ">> \o out.value)))
             @@ [handler |-> handler]

(***************************************************************************)
(* ComputerUseClient.execute_task                                          *)
(***************************************************************************)
task_prompt == "take a screenshot"

\* the host as the executor sees it during one call
Env(works) ==
    [avail |-> PYAUTOGUI_AVAILABLE, works |-> works,
     dw |-> display_width, dh |-> display_height,
     sw |-> screen_size[1], sh |-> screen_size[2], raw |-> grab_size]

\* `if not self.tool_executor`
ExecutorMissingNever(executor) == FALSE

ExecutorMissing(executor) == ~executor

\* `while iterations < max_iterations`
LoopCondInclusive(it, mx) == it <= mx

LoopCond(it, mx) == it < mx

\* block.type == "tool_use"
IsToolUse(block) == block.type = "tool_use"

\* a mutation of the default: a request without `action` becomes a wait
GetActionDefaultsToWait(input) == Get(input, "action", "wait")

\* block.input.get("action", "unknown")
GetAction(input) == Get(input, "action", "unknown")

\* the block the for loop is at
CurrentBlockReversed(content, idx) == content[Len(content) + 1 - idx]

CurrentBlock(content, idx) == content[idx]

\* `if action == "screenshot" and result: screenshots.append(result)`
StoreScreenshotAnyKind(shots, action, res) ==
    IF Truthy(res) THEN Append(shots, res) ELSE shots

StoreScreenshotOverwrite(shots, action, res) ==
    IF action = "screenshot" /\ Truthy(res) THEN <<res>> ELSE shots

StoreScreenshot(shots, action, res) ==
    IF action = "screenshot" /\ Truthy(res) THEN Append(shots, res) ELSE shots

\* a mutation of the tool_result block: the request's id is left out
OkToolResultWithoutId(id, res) ==
    [type |-> "tool_result", tool_use_id |-> "", content |-> res]

\* the tool_result block of a completed action
OkToolResult(id, res) ==
    [type |-> "tool_result", tool_use_id |-> id, content |-> res]

\* the tool_result block of a failed action: f"Error: {str(e)}"
ErrorToolResultUnflagged(id, e) ==
    [type |-> "tool_result", tool_use_id |-> id, content |-> <<"Error: ">> \o e.value]

ErrorToolResult(id, e) ==
    [type |-> "tool_result", tool_use_id |-> id,
     content |-> <<"Error: ">> \o e.value, is_error |-> TRUE]

\* where the for loop stands after the except clause of a failed action: at
\* the next block
AfterExceptBreaks(content, idx) == Len(content) + 1

AfterExcept(content, idx) == idx + 1

\* `await call`: the coroutine stays at the call until it completes
\* (`suspended`); without the await it would go on (`running`)
NotAwaited(suspended, running) == running

Awaited(suspended, running) == suspended

\* `iterations += 1`
IncrementTwice(it) == it + 2

Increment(it) == it + 1

\* messages.append(turn)
AppendTurnAsUser(msgs, turn) == Append(msgs, [turn EXCEPT !.role = "user"])

TrimToLastTurn(msgs, turn) == <<msgs[1], turn>>

AppendTurn(msgs, turn) == Append(msgs, turn)

\* the dict returned when a response holds no tool use
CompleteResultOffByOne(m, s, i) ==
    [status |-> "returned", messages |-> m, screenshots |-> s,
     iterations |-> i - 1, success |-> TRUE]

CompleteResult(m, s, i) ==
    [status |-> "returned", messages |-> m, screenshots |-> s,
     iterations |-> i, success |-> TRUE]

\* the dict returned when the while loop runs out
MaxIterResultDropsShots(m, s, i) ==
    [status |-> "returned", messages |-> m, screenshots |-> <<>>,
     iterations |-> i, success |-> FALSE]

MaxIterResult(m, s, i) ==
    [status |-> "returned", messages |-> m, screenshots |-> s,
     iterations |-> i, success |-> FALSE]

\* `except Exception as e: print(...); raise`
ReraiseWrapped(e) == [type |-> "RuntimeError", value |-> <<"API error: ">> \o e.value]

Reraise(e) == e

(***************************************************************************)
(* The reasoning model and the API: what a model call can return.          *)
(***************************************************************************)
TextBlock == [type |-> "text", text |-> "I will look at the screen."]

\* the inputs of the tool_use blocks the model sends in this model
ToolInputs ==
    { [action |-> "screenshot"],
      [action |-> "left_click", coordinate |-> <<display_width - 1, display_height - 1>>],
      [coordinate |-> <<0, 0>>] }

\* the id the API gives the tool_use block at position i of response k
BlockId(k, i) == "toolu_" \o ToString(k) \o "_" \o ToString(i)

\* response.content of model call k: an optional text block, then tool_use
\* blocks, at most MaxBlocks blocks in all and at most `cap` tool_use blocks
Contents(k, cap) ==
    { LET n == Len(pre) IN
      pre \o [i \in 1..Len(tools) |->
                [type |-> "tool_use", id |-> BlockId(k, n + i), input |-> tools[i]]] :
        pre \in {<<>>, <<TextBlock>>},
        tools \in UNION { [1..m -> ToolInputs] : m \in 0..Min(cap, MaxBlocks - 1) } }
      \cup
    { [i \in 1..MaxBlocks |->
         [type |-> "tool_use", id |-> BlockId(k, i), input |-> tools[i]]] :
        tools \in IF cap >= MaxBlocks THEN [1..MaxBlocks -> ToolInputs] ELSE {} }

ApiErrors ==
    { [type |-> "APIConnectionError", value |-> <<"Connection error.">>],
      [type |-> "AuthenticationError", value |-> <<"invalid x-api-key">>] }

Pending == [ok |-> FALSE, type |-> "pending", value |-> <<>>, backend |-> <<>>,
            handler |-> "None"]

NoParts == [text |-> "", image |-> <<>>]

\* nothing has run yet
NoTask ==
    /\ messages = <<>>
    /\ screenshots = <<>>
    /\ iterations = 0
    /\ response = <<>>
    /\ block_idx = 0
    /\ tool_results = <<>>
    /\ has_tool_use = FALSE
    /\ function_calls = <<>>
    /\ tool_outputs = <<>>
    /\ has_screenshot = FALSE
    /\ current_parts = NoParts
    /\ success = FALSE
    /\ result = NoResult
    /\ error = NoError
    /\ api_log = <<>>
    /\ exec_log = <<>>
    /\ clock = 0

\* no second task
NoFrame == [pc |-> "none"]

\* a single execute_task invocation
Alone ==
    /\ task = 1
    /\ other = NoFrame

\* no capturer around the client, no kb sync
NoOuter ==
    /\ auth_credentials = EmptyDict
    /\ session_active = FALSE
    /\ authenticated = FALSE
    /\ files = EmptyDict
    /\ method = [pc |-> "none"]
    /\ sync_state = EmptyDict
    /\ provider_log = <<>>

\* a capturer's display: the virtual display and a larger real screen
Display ==
    /\ display_width = MaxDim
    /\ display_height = MaxDim - 1
    /\ screen_size = <<MaxDim + 1, MaxDim>>
    /\ grab_size = screen_size

Init ==
    /\ client = "claude"
    /\ tool_executor \in BOOLEAN
    /\ PYAUTOGUI_AVAILABLE \in BOOLEAN
    /\ Display
    /\ max_iterations \in 0..MaxIter
    /\ verbose = TRUE
    /\ pc = "idle"
    /\ NoTask
    /\ Alone
    /\ NoOuter

\* lines 85-86: no executor bound
RaiseNoExecutor ==
    /\ pc = "idle"
    /\ client = "claude"
    /\ ExecutorMissing(tool_executor)
    /\ error' = [type |-> "RuntimeError",
                 value |-> <<"Tool executor not set. Call set_tool_executor() first.">>]
    /\ pc' = "raised"
    /\ UNCHANGED <<host, gemini, locals, result, api_log, exec_log, clock>>

\* lines 88-98: seed the conversation
Start ==
    /\ pc = "idle"
    /\ client = "claude"
    /\ ~ExecutorMissing(tool_executor)
    /\ messages' = <<[role |-> "user", content |-> task_prompt]>>
    /\ screenshots' = <<>>
    /\ iterations' = 0
    /\ pc' = "loop"
    /\ UNCHANGED <<host, gemini, response, block_idx, tool_results, has_tool_use,
                   result, error, api_log, exec_log, clock>>

\* lines 100-115: enter the next iteration and issue the model call
LoopIterate ==
    /\ pc = "loop"
    /\ LoopCond(iterations, max_iterations)
    /\ iterations' = Increment(iterations)
    /\ api_log' = Append(api_log, [iteration |-> iterations + 1, start |-> clock + 1,
                                   end |-> 0, done |-> FALSE, ok |-> FALSE,
                                   content |-> <<>>, error |-> NoError])
    /\ clock' = clock + 1
    /\ pc' = "api"
    /\ UNCHANGED <<host, gemini, messages, screenshots, response, block_idx,
                   tool_results, has_tool_use, result, error, exec_log>>

\* lines 189-196: the loop ran out
MaxIterationsReached ==
    /\ pc = "loop"
    /\ ~LoopCond(iterations, max_iterations)
    /\ result' = MaxIterResult(messages, screenshots, iterations)
    /\ pc' = "returned"
    /\ UNCHANGED <<host, gemini, locals, error, api_log, exec_log, clock>>

\* lines 108-128: the model call returns; its turn is appended
ApiReturn(content) ==
    /\ pc = "api"
    /\ messages' = AppendTurn(messages, [role |-> "assistant", content |-> content])
    /\ response' = content
    /\ tool_results' = <<>>
    /\ has_tool_use' = FALSE
    /\ block_idx' = 1
    /\ api_log' = [api_log EXCEPT ![Len(api_log)] =
                      [@ EXCEPT !.end = clock + 1, !.done = TRUE, !.ok = TRUE,
                                !.content = content]]
    /\ clock' = clock + 1
    /\ pc' = "scan"
    /\ UNCHANGED <<host, gemini, screenshots, iterations, result, error, exec_log>>

\* lines 116-118: the model call fails
ApiRaise(e) ==
    /\ pc = "api"
    /\ error' = Reraise(e)
    /\ api_log' = [api_log EXCEPT ![Len(api_log)] =
                      [@ EXCEPT !.end = clock + 1, !.done = TRUE, !.error = e]]
    /\ clock' = clock + 1
    /\ pc' = "raised"
    /\ UNCHANGED <<host, gemini, locals, result, exec_log>>

\* lines 130-131, 166-169: a block that is no tool use
SkipBlock ==
    /\ pc = "scan"
    /\ block_idx <= Len(response)
    /\ ~IsToolUse(CurrentBlock(response, block_idx))
    /\ block_idx' = block_idx + 1
    /\ UNCHANGED <<host, gemini, messages, screenshots, iterations, response,
                   tool_results, has_tool_use, result, error, api_log,
                   exec_log, clock, pc>>

\* lines 131-143: a tool_use block; the executor is called and awaited
ExecStart ==
    /\ pc = "scan"
    /\ block_idx <= Len(response)
    /\ LET block == CurrentBlock(response, block_idx) IN
       /\ IsToolUse(block)
       /\ exec_log' = Append(exec_log,
              [id |-> block.id, iteration |-> iterations,
               action |-> GetAction(block.input), params |-> block.input,
               start |-> clock + 1, end |-> 0, done |-> FALSE, out |-> Pending])
    /\ has_tool_use' = TRUE
    /\ clock' = clock + 1
    /\ pc' = Awaited("exec", "scan")
    /\ UNCHANGED <<host, gemini, messages, screenshots, iterations, response,
                   block_idx, tool_results, result, error, api_log>>

\* the executor call in flight
InFlight == exec_log[Len(exec_log)]

\* lines 140-154: the executor returns
ExecReturn(works) ==
    /\ pc = "exec"
    /\ LET call == InFlight
           out == execute_action(call.action, call.params, Env(works))
       IN  /\ out.ok
           /\ screenshots' = StoreScreenshot(screenshots, call.action, out.value)
           /\ tool_results' = Append(tool_results, OkToolResult(call.id, out.value))
           /\ exec_log' = [exec_log EXCEPT ![Len(exec_log)] =
                              [@ EXCEPT !.end = clock + 1, !.done = TRUE, !.out = out]]
    /\ block_idx' = block_idx + 1
    /\ clock' = clock + 1
    /\ pc' = "scan"
    /\ UNCHANGED <<host, gemini, messages, iterations, response, has_tool_use,
                   result, error, api_log>>

\* lines 156-164: the executor raises; the error goes back to the model
ExecRaise(works) ==
    /\ pc = "exec"
    /\ LET call == InFlight
           out == execute_action(call.action, call.params, Env(works))
       IN  /\ ~out.ok
           /\ tool_results' = Append(tool_results, ErrorToolResult(call.id, out))
           /\ exec_log' = [exec_log EXCEPT ![Len(exec_log)] =
                              [@ EXCEPT !.end = clock + 1, !.done = TRUE, !.out = out]]
    /\ block_idx' = AfterExcept(response, block_idx)
    /\ clock' = clock + 1
    /\ pc' = "scan"
    /\ UNCHANGED <<host, gemini, messages, screenshots, iterations, response,
                   has_tool_use, result, error, api_log>>

\* lines 171-181: no tool use in the response
TaskComplete ==
    /\ pc = "scan"
    /\ block_idx > Len(response)
    /\ ~has_tool_use
    /\ result' = CompleteResult(messages, screenshots, iterations)
    /\ pc' = "returned"
    /\ UNCHANGED <<host, gemini, locals, error, api_log, exec_log, clock>>

\* lines 183-187: the results of the turn are appended
AppendToolResults ==
    /\ pc = "scan"
    /\ block_idx > Len(response)
    /\ has_tool_use
    /\ messages' = AppendTurn(messages, [role |-> "user", content |-> tool_results])
    /\ pc' = "loop"
    /\ UNCHANGED <<host, gemini, screenshots, iterations, response, block_idx,
                   tool_results, has_tool_use, result, error, api_log,
                   exec_log, clock>>

Next ==
    \/ RaiseNoExecutor
    \/ Start
    \/ LoopIterate
    \/ MaxIterationsReached
    \/ \E content \in Contents(iterations, MaxCalls - Len(exec_log)) :
           ApiReturn(content)
    \/ \E e \in ApiErrors : ApiRaise(e)
    \/ SkipBlock
    \/ ExecStart
    \/ \E works \in BOOLEAN : ExecReturn(works)
    \/ \E works \in BOOLEAN : ExecRaise(works)
    \/ TaskComplete
    \/ AppendToolResults

Spec == Init /\ [][Next]_vars

\* the loop of a client whose executor is bound and whose budget is not zero
InitRun ==
    /\ client = "claude"
    /\ tool_executor = TRUE
    /\ PYAUTOGUI_AVAILABLE \in BOOLEAN
    /\ Display
    /\ max_iterations \in 1..MaxIter
    /\ verbose = TRUE
    /\ pc = "idle"
    /\ NoTask
    /\ Alone
    /\ NoOuter

NextRun ==
    \/ Start
    \/ LoopIterate
    \/ MaxIterationsReached
    \/ \E content \in Contents(iterations, MaxCalls - Len(exec_log)) :
           ApiReturn(content)
    \/ \E e \in ApiErrors : ApiRaise(e)
    \/ SkipBlock
    \/ ExecStart
    \/ \E works \in BOOLEAN : ExecReturn(works)
    \/ \E works \in BOOLEAN : ExecRaise(works)
    \/ TaskComplete
    \/ AppendToolResults

SpecRun == InitRun /\ [][NextRun]_vars

(***************************************************************************)
(* GeminiComputerUseClient.execute_task.  A message sent to the chat is a  *)
(* record [text, image]; a response is the sequence response.parts.        *)
(***************************************************************************)
full_prompt == "TASK: take a screenshot"

\* gemini_client.py line 109: `if not self.tool_executor`
GeminiExecutorMissing(executor) == ~executor

\* gemini_client.py line 146: `while iterations < max_iterations`
GeminiLoopCond(it, mx) == it < mx

\* `if s.startswith("data:"): s = s.split(",")[1]`
StripDataPrefix(v) ==
    IF v # <<>> /\ v[1] = "data:image/png;base64," THEN Tail(v) ELSE v

\* response.text: the text of a response of text parts; ValueError when the
\* response holds a function call or no part at all
TextReadable(parts) ==
    /\ parts # <<>>
    /\ \A i \in 1..Len(parts) : parts[i].type = "text"

ResponseText(parts) == parts[1].text

\* lines 154-157: text_content
TextContent(parts) == IF TextReadable(parts) THEN ResponseText(parts) ELSE ""

\* lines 165-168: the function calls of response.parts
FunctionCalls(parts) == SelectSeq(parts, LAMBDA part : part.type = "function_call")

\* a mutation of args.get("action"): every request becomes a plain click
GeminiGetActionRenames(args) == "click"

\* args.get("action"): None is written "None", as str() prints it
GeminiGetAction(args) == Get(args, "action", "None")

\* the dict execute_task returns
GeminiResult(m, s, i, ok) ==
    [status |-> "returned", messages |-> m, screenshots |-> s,
     iterations |-> i, success |-> ok]

\* the function calls the model sends in this model
GeminiCalls ==
    { [type |-> "function_call", name |-> "perform_action",
       args |-> [action |-> "screenshot"]],
      [type |-> "function_call", name |-> "perform_action",
       args |-> [action |-> "left_click",
                 coordinate |-> <<display_width - 1, display_height - 1>>]],
      [type |-> "function_call", name |-> "perform_action",
       args |-> [coordinate |-> <<0, 0>>]],
      [type |-> "function_call", name |-> "open_browser", args |-> EmptyDict] }

\* response.parts of a chat.send_message call: text, nothing, or at most
\* `cap` function calls
GeminiParts(cap) ==
    { <<>>, <<[type |-> "text", text |-> "The task is complete."]>> }
      \cup UNION { [1..m -> GeminiCalls] : m \in 1..Min(cap, MaxBlocks) }

\* the answers to the function responses, which the loop does not read
GeminiReplies ==
    { <<[type |-> "text", text |-> "Understood."]>>,
      <<[type |-> "function_call", name |-> "perform_action",
         args |-> [action |-> "screenshot"]]>> }

\* a chat.send_message call is issued
Sent(kind, parts) ==
    [iteration |-> iterations, kind |-> kind, sent |-> parts, start |-> clock + 1,
     end |-> 0, done |-> FALSE, ok |-> FALSE, content |-> <<>>, error |-> NoError]

InitGemini ==
    /\ client = "gemini"
    /\ tool_executor \in BOOLEAN
    /\ PYAUTOGUI_AVAILABLE \in BOOLEAN
    /\ Display
    /\ max_iterations \in 0..MaxIter
    /\ verbose \in BOOLEAN
    /\ pc = "idle"
    /\ NoTask
    /\ Alone
    /\ NoOuter

\* lines 109-110: no executor bound
GeminiRaiseNoExecutor ==
    /\ pc = "idle"
    /\ client = "gemini"
    /\ GeminiExecutorMissing(tool_executor)
    /\ error' = [type |-> "RuntimeError", value |-> <<"Tool executor not set.">>]
    /\ pc' = "raised"
    /\ UNCHANGED <<host, gemini, locals, result, api_log, exec_log, clock>>

\* lines 112-134: set up the chat and ask the executor for a first screenshot
GeminiStart ==
    /\ pc = "idle"
    /\ client = "gemini"
    /\ ~GeminiExecutorMissing(tool_executor)
    /\ messages' = <<>>
    /\ screenshots' = <<>>
    /\ iterations' = 0
    /\ success' = FALSE
    /\ exec_log' = Append(exec_log,
           [id |-> "initial", iteration |-> 0, action |-> "screenshot",
            params |-> EmptyDict, start |-> clock + 1, end |-> 0, done |-> FALSE,
            out |-> Pending])
    /\ clock' = clock + 1
    /\ pc' = "g_shot"
    /\ UNCHANGED <<host, response, block_idx, tool_results, has_tool_use,
                   function_calls, tool_outputs, has_screenshot, current_parts,
                   result, error, api_log>>

\* lines 134-141: the first screenshot is attached to the prompt
InitialShotReturn(works) ==
    /\ pc = "g_shot"
    /\ LET out == execute_action(InFlight.action, InFlight.params, Env(works)) IN
       /\ out.ok
       /\ current_parts' = [text |-> full_prompt, image |-> StripDataPrefix(out.value)]
       /\ screenshots' = Append(screenshots, StripDataPrefix(out.value))
       /\ exec_log' = [exec_log EXCEPT ![Len(exec_log)] =
                          [@ EXCEPT !.end = clock + 1, !.done = TRUE, !.out = out]]
    /\ clock' = clock + 1
    /\ pc' = "g_loop"
    /\ UNCHANGED <<host, messages, iterations, response, block_idx, tool_results,
                   has_tool_use, function_calls, tool_outputs, has_screenshot,
                   success, result, error, api_log>>

\* lines 142-144: the first screenshot failed; the prompt goes alone
InitialShotRaise(works) ==
    /\ pc = "g_shot"
    /\ LET out == execute_action(InFlight.action, InFlight.params, Env(works)) IN
       /\ ~out.ok
       /\ exec_log' = [exec_log EXCEPT ![Len(exec_log)] =
                          [@ EXCEPT !.end = clock + 1, !.done = TRUE, !.out = out]]
    /\ current_parts' = [text |-> full_prompt, image |-> <<>>]
    /\ clock' = clock + 1
    /\ pc' = "g_loop"
    /\ UNCHANGED <<host, messages, screenshots, iterations, response, block_idx,
                   tool_results, has_tool_use, function_calls, tool_outputs,
                   has_screenshot, success, result, error, api_log>>

\* lines 146-152: enter the next iteration and send current_parts
GeminiLoopIterate ==
    /\ pc = "g_loop"
    /\ GeminiLoopCond(iterations, max_iterations)
    /\ iterations' = iterations + 1
    /\ api_log' = Append(api_log,
                         [Sent("turn", current_parts) EXCEPT !.iteration = iterations + 1])
    /\ clock' = clock + 1
    /\ pc' = "g_send"
    /\ UNCHANGED <<host, gemini, messages, screenshots, response, block_idx,
                   tool_results, has_tool_use, result, error, exec_log>>

\* lines 279-284: the loop ran out
GeminiMaxIterationsReached ==
    /\ pc = "g_loop"
    /\ ~GeminiLoopCond(iterations, max_iterations)
    /\ result' = GeminiResult(messages, screenshots, iterations, success)
    /\ pc' = "returned"
    /\ UNCHANGED <<host, gemini, locals, error, api_log, exec_log, clock>>

\* lines 152-168: the model answers; its text is recorded, its function
\* calls are collected
GeminiSendReturn(parts) ==
    /\ pc = "g_send"
    /\ response' = parts
    /\ messages' = Append(messages, [role |-> "model", content |-> TextContent(parts)])
    /\ function_calls' = FunctionCalls(parts)
    /\ api_log' = [api_log EXCEPT ![Len(api_log)] =
                      [@ EXCEPT !.end = clock + 1, !.done = TRUE, !.ok = TRUE,
                                !.content = parts]]
    /\ clock' = clock + 1
    /\ pc' = "g_calls"
    /\ UNCHANGED <<host, screenshots, iterations, block_idx, tool_results,
                   has_tool_use, tool_outputs, has_screenshot, current_parts,
                   success, result, error, exec_log>>

\* lines 160-162 and 260-262: a chat.send_message call fails
GeminiSendRaise(e) ==
    /\ pc \in {"g_send", "g_reply"}
    /\ error' = e
    /\ api_log' = [api_log EXCEPT ![Len(api_log)] =
                      [@ EXCEPT !.end = clock + 1, !.done = TRUE, !.error = e]]
    /\ clock' = clock + 1
    /\ pc' = "raised"
    /\ UNCHANGED <<host, gemini, locals, result, exec_log>>

\* lines 170-176, 279-284: no function call; the task is taken as complete
GeminiTaskComplete ==
    /\ pc = "g_calls"
    /\ function_calls = <<>>
    /\ verbose => TextReadable(response)
    /\ success' = TRUE
    /\ result' = GeminiResult(messages, screenshots, iterations, TRUE)
    /\ pc' = "returned"
    /\ UNCHANGED <<host, locals, function_calls, tool_outputs, has_screenshot,
                   current_parts, error, api_log, exec_log, clock>>

\* line 173: print(response.text) of a response without text raises
GeminiPrintRaises ==
    /\ pc = "g_calls"
    /\ function_calls = <<>>
    /\ verbose
    /\ ~TextReadable(response)
    /\ error' = [type |-> "ValueError", value |-> <<"response.text requires a text part">>]
    /\ pc' = "raised"
    /\ UNCHANGED <<host, gemini, locals, result, api_log, exec_log, clock>>

\* lines 178-180: function calls to execute
GeminiBeginCalls ==
    /\ pc = "g_calls"
    /\ function_calls # <<>>
    /\ tool_outputs' = <<>>
    /\ has_screenshot' = FALSE
    /\ block_idx' = 1
    /\ pc' = "g_scan"
    /\ UNCHANGED <<host, messages, screenshots, iterations, response,
                   tool_results, has_tool_use, function_calls, current_parts,
                   success, result, error, api_log, exec_log, clock>>

\* line 183: a function call of another name is passed over
GeminiSkipCall ==
    /\ pc = "g_scan"
    /\ block_idx <= Len(function_calls)
    /\ function_calls[block_idx].name # "perform_action"
    /\ block_idx' = block_idx + 1
    /\ UNCHANGED <<host, gemini, messages, screenshots, iterations, response,
                   tool_results, has_tool_use, result, error, api_log, exec_log,
                   clock, pc>>

\* lines 183-194: a perform_action call; the executor is called and awaited
GeminiExecStart ==
    /\ pc = "g_scan"
    /\ block_idx <= Len(function_calls)
    /\ LET fc == function_calls[block_idx] IN
       /\ fc.name = "perform_action"
       /\ exec_log' = Append(exec_log,
              [id |-> "call", iteration |-> iterations,
               action |-> GeminiGetAction(fc.args), params |-> fc.args,
               start |-> clock + 1, end |-> 0, done |-> FALSE, out |-> Pending])
    /\ clock' = clock + 1
    /\ pc' = "g_exec"
    /\ UNCHANGED <<host, gemini, locals, result, error, api_log>>

\* lines 194-224: the executor returns
GeminiExecReturn(works) ==
    /\ pc = "g_exec"
    /\ LET call == InFlight
           out == execute_action(call.action, call.params, Env(works))
       IN  /\ out.ok
           /\ IF call.action = "screenshot"
              THEN /\ has_screenshot' = TRUE
                   /\ tool_outputs' = Append(tool_outputs,
                          [name |-> "perform_action", key |-> "result",
                           value |-> <<"Screenshot captured (image attached)">>])
                   /\ screenshots' = Append(screenshots, out.value)
              ELSE /\ tool_outputs' = Append(tool_outputs,
                          [name |-> "perform_action", key |-> "result",
                           value |-> out.value])
                   /\ UNCHANGED <<has_screenshot, screenshots>>
           /\ exec_log' = [exec_log EXCEPT ![Len(exec_log)] =
                              [@ EXCEPT !.end = clock + 1, !.done = TRUE, !.out = out]]
    /\ block_idx' = block_idx + 1
    /\ clock' = clock + 1
    /\ pc' = "g_scan"
    /\ UNCHANGED <<host, messages, iterations, response, tool_results,
                   has_tool_use, function_calls, current_parts, success,
                   result, error, api_log>>

\* lines 226-233: the executor raises; the error goes back to the model
GeminiExecRaise(works) ==
    /\ pc = "g_exec"
    /\ LET call == InFlight
           out == execute_action(call.action, call.params, Env(works))
       IN  /\ ~out.ok
           /\ tool_outputs' = Append(tool_outputs,
                  [name |-> "perform_action", key |-> "error", value |-> out.value])
           /\ exec_log' = [exec_log EXCEPT ![Len(exec_log)] =
                              [@ EXCEPT !.end = clock + 1, !.done = TRUE, !.out = out]]
    /\ block_idx' = block_idx + 1
    /\ clock' = clock + 1
    /\ pc' = "g_scan"
    /\ UNCHANGED <<host, messages, screenshots, iterations, response,
                   tool_results, has_tool_use, function_calls, has_screenshot,
                   current_parts, success, result, error, api_log>>

\* lines 240-258: the function responses are sent to the chat
GeminiReplyStart ==
    /\ pc = "g_scan"
    /\ block_idx > Len(function_calls)
    /\ api_log' = Append(api_log, Sent("function_responses", tool_outputs))
    /\ clock' = clock + 1
    /\ pc' = "g_reply"
    /\ UNCHANGED <<host, gemini, locals, result, error, exec_log>>

\* lines 258, 266-277: the answer is dropped and the next message prepared
GeminiReplyReturn(parts) ==
    /\ pc = "g_reply"
    /\ api_log' = [api_log EXCEPT ![Len(api_log)] =
                      [@ EXCEPT !.end = clock + 1, !.done = TRUE, !.ok = TRUE,
                                !.content = parts]]
    /\ current_parts' =
          IF has_screenshot
          THEN [text |-> "Here is the screen after the action:",
                image |-> StripDataPrefix(screenshots[Len(screenshots)])]
          ELSE [text |-> "Action completed. Ensure you verify the result. What is the next step?",
                image |-> <<>>]
    /\ clock' = clock + 1
    /\ pc' = "g_loop"
    /\ UNCHANGED <<host, locals, function_calls, tool_outputs, has_screenshot,
                   success, result, error, exec_log>>

NextGemini ==
    \/ GeminiRaiseNoExecutor
    \/ GeminiStart
    \/ \E works \in BOOLEAN : InitialShotReturn(works)
    \/ \E works \in BOOLEAN : InitialShotRaise(works)
    \/ GeminiLoopIterate
    \/ GeminiMaxIterationsReached
    \/ \E parts \in GeminiParts(MaxCalls - Len(exec_log)) : GeminiSendReturn(parts)
    \/ \E e \in ApiErrors : GeminiSendRaise(e)
    \/ GeminiTaskComplete
    \/ GeminiPrintRaises
    \/ GeminiBeginCalls
    \/ GeminiSkipCall
    \/ GeminiExecStart
    \/ \E works \in BOOLEAN : GeminiExecReturn(works)
    \/ \E works \in BOOLEAN : GeminiExecRaise(works)
    \/ GeminiReplyStart
    \/ \E parts \in GeminiReplies : GeminiReplyReturn(parts)

SpecGemini == InitGemini /\ [][NextGemini]_vars

(***************************************************************************)
(* Either client, called with or without an executor.                      *)
(***************************************************************************)
InitEntry ==
    /\ client \in {"claude", "gemini"}
    /\ tool_executor \in BOOLEAN
    /\ PYAUTOGUI_AVAILABLE \in BOOLEAN
    /\ Display
    /\ max_iterations \in 0..MaxEntryIter
    /\ verbose \in BOOLEAN
    /\ pc = "idle"
    /\ NoTask
    /\ Alone
    /\ NoOuter

NextEntry == Next \/ NextGemini

SpecEntry == InitEntry /\ [][NextEntry]_vars


(***************************************************************************)
(* ComputerUseTool used directly: a caller that invokes execute_action     *)
(* with any action name and any params dict.                               *)
(***************************************************************************)
AnyActions ==
    ActionKinds \cup {"unknown_kind", "unknown", "fly", "Screenshot", "click", ""}

AnyParams ==
    { EmptyDict,
      [coordinate |-> <<0, 0>>],
      [coordinate |-> <<display_width - 1, display_height - 1>>],
      [coordinate |-> <<display_width>>],
      [text |-> <<"h", "i">>],
      [text |-> <<>>],
      [key |-> <<"ctrl", "+", "s">>],
      [wait_duration_ms |-> 0],
      [wait_duration_ms |-> -1] }

InitTool ==
    /\ client = "none"
    /\ tool_executor = TRUE
    /\ PYAUTOGUI_AVAILABLE \in BOOLEAN
    /\ display_width = MaxDim
    /\ display_height = MaxDim - 1
    /\ screen_size \in {<<MaxDim, MaxDim - 1>>, <<MaxDim + 1, MaxDim>>}
    /\ grab_size = screen_size
    /\ max_iterations = 0
    /\ verbose = TRUE
    /\ pc = "tool"
    /\ NoTask
    /\ Alone
    /\ NoOuter

\* one awaited execute_action(action, params)
ToolCall(action, params, works) ==
    /\ pc = "tool"
    /\ Len(exec_log) < MaxToolCalls
    /\ exec_log' = Append(exec_log,
           [id |-> "direct", iteration |-> 0, action |-> action, params |-> params,
            start |-> clock + 1, end |-> clock + 2, done |-> TRUE,
            out |-> execute_action(action, params, Env(works))])
    /\ clock' = clock + 2
    /\ UNCHANGED <<host, gemini, locals, result, error, api_log, pc>>

NextTool ==
    \E action \in AnyActions, params \in AnyParams, works \in BOOLEAN :
        ToolCall(action, params, works)

SpecTool == InitTool /\ [][NextTool]_vars

(***************************************************************************)
(* The pointer handlers on displays and screens of every small size, with  *)
(* coordinates inside and outside the virtual display.                     *)
(***************************************************************************)
\* the handlers that scale a coordinate
ScalingKinds == {"left_click", "right_click", "double_click", "mouse_move",
                 "left_click_drag", "scroll"}

\* coordinates a model may send: negative, inside, and past the display
AnyCoordinates == (-1)..(MaxDim + 1)

InitScale ==
    /\ client = "none"
    /\ tool_executor = TRUE
    /\ PYAUTOGUI_AVAILABLE = TRUE
    /\ display_width \in 1..MaxDim
    /\ display_height \in 1..MaxDim
    /\ screen_size \in (1..(MaxDim + 1)) \X (1..(MaxDim + 1))
    /\ grab_size = screen_size
    /\ max_iterations = 0
    /\ verbose = TRUE
    /\ pc = "tool"
    /\ NoTask
    /\ Alone
    /\ NoOuter

\* one pointer action on a fresh executor
NextScale ==
    \E action \in ScalingKinds, x \in AnyCoordinates, y \in AnyCoordinates,
       works \in BOOLEAN :
        /\ exec_log = <<>>
        /\ ToolCall(action, [coordinate |-> <<x, y>>], works)

SpecScale == InitScale /\ [][NextScale]_vars

(***************************************************************************)
(* The agent loop with a model that asks for one action of any kind with   *)
(* any input in its first response, and for a screenshot or nothing later. *)
(***************************************************************************)
\* the tool_use block at position i of response k
ToolUse(k, i, input) == [type |-> "tool_use", id |-> BlockId(k, i), input |-> input]

KindContents(k) ==
    { <<TextBlock>>, <<TextBlock, ToolUse(k, 2, [action |-> "screenshot"])>> }
      \cup (IF k > 1 THEN {}
            ELSE { <<ToolUse(k, 1, [action |-> a] @@ p)>> :
                      a \in ActionKinds, p \in AnyParams })

\* raw captures: of the display's size, of the screen's, and twice the display
Grabs == {<<MaxDim, MaxDim - 1>>, <<MaxDim + 1, MaxDim>>, <<2 * MaxDim, 2 * (MaxDim - 1)>>}

InitKinds ==
    /\ client = "claude"
    /\ tool_executor \in BOOLEAN
    /\ PYAUTOGUI_AVAILABLE \in BOOLEAN
    /\ display_width = MaxDim
    /\ display_height = MaxDim - 1
    /\ screen_size = <<MaxDim + 1, MaxDim>>
    /\ grab_size \in Grabs
    /\ max_iterations \in 0..MaxEntryIter
    /\ verbose = TRUE
    /\ pc = "idle"
    /\ NoTask
    /\ Alone
    /\ NoOuter

NextKinds ==
    \/ RaiseNoExecutor
    \/ Start
    \/ LoopIterate
    \/ MaxIterationsReached
    \/ \E content \in KindContents(iterations) : ApiReturn(content)
    \/ \E e \in ApiErrors : ApiRaise(e)
    \/ SkipBlock
    \/ ExecStart
    \/ \E works \in BOOLEAN : ExecReturn(works)
    \/ \E works \in BOOLEAN : ExecRaise(works)
    \/ TaskComplete
    \/ AppendToolResults

SpecKinds == InitKinds /\ [][NextKinds]_vars

(***************************************************************************)
(* The agent loop under a scheduler that runs the coroutine whenever it    *)
(* can run, with a model and an executor whose calls all come back.  The   *)
(* model answers with text, with one action, or with text and one action.  *)
(***************************************************************************)
LiveContents(k) ==
    { <<TextBlock>>,
      <<ToolUse(k, 1, [action |-> "screenshot"])>>,
      <<TextBlock, ToolUse(k, 2, [action |-> "left_click", coordinate |-> <<0, 0>>])>> }

NextLive ==
    \/ RaiseNoExecutor
    \/ Start
    \/ LoopIterate
    \/ MaxIterationsReached
    \/ \E content \in LiveContents(iterations) : ApiReturn(content)
    \/ \E e \in ApiErrors : ApiRaise(e)
    \/ SkipBlock
    \/ ExecStart
    \/ \E works \in BOOLEAN : ExecReturn(works)
    \/ \E works \in BOOLEAN : ExecRaise(works)
    \/ TaskComplete
    \/ AppendToolResults

SpecLive == Init /\ [][NextLive]_vars /\ WF_vars(NextLive)

(***************************************************************************)
(* Two execute_task invocations at once, each on its own ComputerUseClient *)
(* and ComputerUseTool.  The variables show the task that runs; `other`    *)
(* keeps what belongs to the task that does not: the attributes of its     *)
(* instances and the locals of its execute_task frame.  Both run on one    *)
(* host, so the module flag and the real screen are common to them.        *)
(***************************************************************************)
\* what a task finds in a local or an instance attribute when it runs on:
\* the value it left there (`mine`), whatever the other task did meanwhile
\* (`theirs`)
FindsShared(mine, theirs) == theirs

Finds(mine, theirs) == mine

\* the instance attributes and the frame of the running task
Frame ==
    [tool_executor |-> tool_executor, max_iterations |-> max_iterations,
     display_width |-> display_width, display_height |-> display_height,
     pc |-> pc, messages |-> messages, screenshots |-> screenshots,
     iterations |-> iterations, response |-> response, block_idx |-> block_idx,
     tool_results |-> tool_results, has_tool_use |-> has_tool_use,
     result |-> result, error |-> error, api_log |-> api_log,
     exec_log |-> exec_log, clock |-> clock]

\* the second task before it starts: its own, different virtual display
SecondTask(budget) ==
    [tool_executor |-> TRUE, max_iterations |-> budget,
     display_width |-> MaxDim - 1, display_height |-> MaxDim,
     pc |-> "idle", messages |-> <<>>, screenshots |-> <<>>,
     iterations |-> 0, response |-> <<>>, block_idx |-> 0,
     tool_results |-> <<>>, has_tool_use |-> FALSE,
     result |-> NoResult, error |-> NoError, api_log |-> <<>>,
     exec_log |-> <<>>, clock |-> 0]

InitPair ==
    /\ client = "claude"
    /\ tool_executor = TRUE
    /\ PYAUTOGUI_AVAILABLE \in BOOLEAN
    /\ Display
    /\ max_iterations \in 1..MaxEntryIter
    /\ verbose = TRUE
    /\ pc = "idle"
    /\ NoTask
    /\ task = 1
    /\ other \in {SecondTask(budget) : budget \in 1..MaxEntryIter}
    /\ NoOuter

\* the scheduler lets the other task run
Switch ==
    /\ other.pc # "none"
    /\ task' = 3 - task
    /\ other' = Frame
    /\ tool_executor' = other.tool_executor
    /\ max_iterations' = other.max_iterations
    /\ display_width' = Finds(other.display_width, display_width)
    /\ display_height' = Finds(other.display_height, display_height)
    /\ pc' = other.pc
    /\ messages' = Finds(other.messages, messages)
    /\ screenshots' = Finds(other.screenshots, screenshots)
    /\ iterations' = Finds(other.iterations, iterations)
    /\ response' = other.response
    /\ block_idx' = other.block_idx
    /\ tool_results' = other.tool_results
    /\ has_tool_use' = other.has_tool_use
    /\ result' = other.result
    /\ error' = other.error
    /\ api_log' = other.api_log
    /\ exec_log' = other.exec_log
    /\ clock' = other.clock
    /\ UNCHANGED <<client, PYAUTOGUI_AVAILABLE, screen_size, grab_size, verbose,
                   gemini, outer>>

NextPair ==
    \/ Switch
    \/ Start
    \/ LoopIterate
    \/ MaxIterationsReached
    \/ \E content \in LiveContents(iterations) : ApiReturn(content)
    \/ \E e \in ApiErrors : ApiRaise(e)
    \/ SkipBlock
    \/ ExecStart
    \/ \E works \in BOOLEAN : ExecReturn(works)
    \/ \E works \in BOOLEAN : ExecRaise(works)
    \/ TaskComplete
    \/ AppendToolResults

SpecPair == InitPair /\ [][NextPair]_vars

(***************************************************************************)
(* The Gemini loop with a model that requests what its function schema     *)
(* allows: perform_action with any action of the declared enum.            *)
(***************************************************************************)
\* tools_def: the enum of the `action` parameter of perform_action
GeminiActionEnum ==
    {"screenshot", "left_click", "type", "key", "mouse_move", "scroll", "wait",
     "right_click", "double_click", "left_click_drag"}

\* the other parameters a schema-conforming call carries in this model
SchemaParams ==
    { [coordinate |-> <<0, 0>>, text |-> <<"h", "i">>, key |-> <<"ctrl", "+", "s">>],
      [coordinate |-> <<display_width - 1, display_height - 1>>, wait_duration_ms |-> 0] }

\* response.parts: text, or one call the schema allows
SchemaParts ==
    { <<[type |-> "text", text |-> "The task is complete."]>> }
      \cup { <<[type |-> "function_call", name |-> "perform_action",
                args |-> [action |-> a] @@ p]>> : a \in GeminiActionEnum, p \in SchemaParams }

InitVocab ==
    /\ client = "gemini"
    /\ tool_executor = TRUE
    /\ PYAUTOGUI_AVAILABLE \in BOOLEAN
    /\ Display
    /\ max_iterations \in 1..MaxEntryIter
    /\ verbose = FALSE
    /\ pc = "idle"
    /\ NoTask
    /\ Alone
    /\ NoOuter

NextVocab ==
    \/ GeminiStart
    \/ \E works \in BOOLEAN : InitialShotReturn(works)
    \/ \E works \in BOOLEAN : InitialShotRaise(works)
    \/ GeminiLoopIterate
    \/ GeminiMaxIterationsReached
    \/ \E parts \in SchemaParts : GeminiSendReturn(parts)
    \/ \E e \in ApiErrors : GeminiSendRaise(e)
    \/ GeminiTaskComplete
    \/ GeminiBeginCalls
    \/ GeminiExecStart
    \/ \E works \in BOOLEAN : GeminiExecReturn(works)
    \/ \E works \in BOOLEAN : GeminiExecRaise(works)
    \/ GeminiReplyStart
    \/ \E parts \in GeminiReplies : GeminiReplyReturn(parts)

SpecVocab == InitVocab /\ [][NextVocab]_vars

(***************************************************************************)
(* The agent loop with a model whose turns hold several requests: two      *)
(* screenshots, or a request without `action` followed by a click.         *)
(***************************************************************************)
TurnContents(k) ==
    { <<TextBlock>>,
      <<ToolUse(k, 1, [action |-> "screenshot"])>>,
      <<ToolUse(k, 1, [action |-> "screenshot"]), ToolUse(k, 2, [action |-> "screenshot"])>>,
      <<ToolUse(k, 1, [coordinate |-> <<0, 0>>]),
        ToolUse(k, 2, [action |-> "left_click", coordinate |-> <<0, 0>>])>> }

NextTurns ==
    \/ Start
    \/ LoopIterate
    \/ MaxIterationsReached
    \/ \E content \in TurnContents(iterations) : ApiReturn(content)
    \/ \E e \in ApiErrors : ApiRaise(e)
    \/ SkipBlock
    \/ ExecStart
    \/ \E works \in BOOLEAN : ExecReturn(works)
    \/ \E works \in BOOLEAN : ExecRaise(works)
    \/ TaskComplete
    \/ AppendToolResults

SpecTurns == InitRun /\ [][NextTurns]_vars

(***************************************************************************)
(* ComputerUseScreenshotCapturer (scripts/screenshot/computer_use_capture  *)
(* .py): start, stop and capture called in any order on one capturer.      *)
(* start and capture run an execute_task of the Claude loop to its end;    *)
(* `method` is the call in progress and the outcome of the last one.       *)
(***************************************************************************)
\* most capturer methods called on one capturer
MaxMethodCalls == 3

\* `self.auth_credentials and self.auth_credentials.get('enabled')`; None
\* is written as the empty dict, which is as false
AuthEnabled(creds) == creds # EmptyDict /\ Get(creds, "enabled", FALSE)

AnyCredentials ==
    { EmptyDict, [enabled |-> FALSE, type |-> "username_password"],
      [enabled |-> TRUE, type |-> "username_password"] }

\* filenames a caller passes, with and without the extension
AnyFilenames == { <<"home">>, <<"home", ".png">>, <<"settings">> }

\* a mutation of the path: the extension is always added
OutputPathAddsPng(filename) == <<"output/screenshots", "/">> \o filename \o <<".png">>

\* `if not filename.endswith('.png'): filename += '.png'`, under output_dir
OutputPath(filename) ==
    <<"output/screenshots", "/">> \o
        (IF filename # <<>> /\ filename[Len(filename)] = ".png"
         THEN filename ELSE filename \o <<".png">>)

\* `if base64_data.startswith("data:image"): base64_data.split(",")[1]`
StripDataUri(v) ==
    IF v # <<>> /\ v[1] = "data:image/png;base64," THEN Tail(v) ELSE v

\* base64.b64decode: the bytes the text stands for
B64Decode(data) == [bytes |-> data]

\* open(path, 'wb').write(data): the file is created or replaced
WriteFile(fs, path, data) ==
    [p \in DOMAIN fs \cup {path} |-> IF p = path THEN data ELSE fs[p]]

\* no method running; `out` is how the last call ended
Idle(name, out) ==
    [method EXCEPT !.pc = "idle", !.name = name, !.out = out, !.n = @ + 1]

\* asyncio.run(self.client.execute_task(..., max_iterations, verbose))
BeginTask(budget, v) ==
    /\ pc' = "idle"
    /\ max_iterations' = budget
    /\ verbose' = v
    /\ messages' = <<>>
    /\ screenshots' = <<>>
    /\ iterations' = 0
    /\ response' = <<>>
    /\ block_idx' = 0
    /\ tool_results' = <<>>
    /\ has_tool_use' = FALSE
    /\ result' = NoResult
    /\ error' = NoError
    /\ api_log' = <<>>
    /\ exec_log' = <<>>
    /\ clock' = 0
    /\ UNCHANGED <<client, tool_executor, PYAUTOGUI_AVAILABLE, display_width,
                   display_height, screen_size, grab_size, task, other, gemini>>

\* everything of the client and its task
agent == <<client, tool_executor, PYAUTOGUI_AVAILABLE, display_width, display_height,
           screen_size, grab_size, max_iterations, verbose, task, other, gemini,
           locals, result, error, api_log, exec_log, clock>>

InitCapturer ==
    /\ client = "claude"
    /\ tool_executor = TRUE
    /\ PYAUTOGUI_AVAILABLE = TRUE
    /\ Display
    /\ max_iterations = 0
    /\ verbose = FALSE
    /\ pc = "none"
    /\ NoTask
    /\ Alone
    /\ auth_credentials \in AnyCredentials
    /\ session_active = FALSE
    /\ authenticated = FALSE
    /\ files = EmptyDict
    /\ method = [pc |-> "idle", name |-> "__init__", filename |-> <<>>,
                 out |-> Pending, n |-> 0]
    /\ sync_state = EmptyDict
    /\ provider_log = <<>>

\* a mutation of `screenshots[-1]`: the first screenshot is taken
FirstEntry(shots) == shots[1]

\* `screenshots[-1]`
LastEntry(shots) == shots[Len(shots)]

\* a mutation of start(): a login that ran out of budget is not trusted
AuthenticatedIfSuccess(res) == res.success

\* start(), lines 145-147: `self._authenticate(); self.authenticated = True`
AuthenticatedAfter(res) == TRUE

CanCall == method.pc = "idle" /\ method.n < MaxMethodCalls

\* start() without enabled credentials
StartNoAuth ==
    /\ CanCall
    /\ ~AuthEnabled(auth_credentials)
    /\ session_active' = TRUE
    /\ method' = Idle("start", Return(<<>>))
    /\ UNCHANGED <<agent, pc, auth_credentials, authenticated, files, sync_state,
                   provider_log>>

\* start() with enabled credentials: _authenticate runs the login task
StartAuth ==
    /\ CanCall
    /\ AuthEnabled(auth_credentials)
    /\ method' = [method EXCEPT !.pc = "auth", !.name = "start", !.out = Pending]
    /\ BeginTask(MaxIter, TRUE)
    /\ UNCHANGED <<auth_credentials, session_active, authenticated, files, sync_state,
                   provider_log>>

\* _authenticate returns whatever the task's success flag; start() goes on
AuthReturn ==
    /\ method.pc = "auth"
    /\ pc = "returned"
    /\ authenticated' = AuthenticatedAfter(result)
    /\ session_active' = TRUE
    /\ method' = Idle("start", Return(<<>>))
    /\ pc' = "none"
    /\ UNCHANGED <<agent, auth_credentials, files, sync_state, provider_log>>

\* the login task raised: _authenticate raises RuntimeError, and so does start()
AuthRaise ==
    /\ method.pc = "auth"
    /\ pc = "raised"
    /\ method' = Idle("start", Raised("RuntimeError",
                                     <<"Authentication failed: ">> \o error.value))
    /\ pc' = "none"
    /\ UNCHANGED <<agent, auth_credentials, session_active, authenticated, files,
                   sync_state, provider_log>>

\* stop()
Stop ==
    /\ CanCall
    /\ session_active' = FALSE
    /\ authenticated' = FALSE
    /\ method' = Idle("stop", Return(<<>>))
    /\ UNCHANGED <<agent, pc, auth_credentials, files, sync_state, provider_log>>

\* capture(filename): the screenshot task is run
CaptureCall(filename) ==
    /\ CanCall
    /\ method' = [method EXCEPT !.pc = "capture", !.name = "capture",
                                !.filename = filename, !.out = Pending]
    /\ BeginTask(MaxIter, FALSE)
    /\ UNCHANGED <<auth_credentials, session_active, authenticated, files, sync_state,
                   provider_log>>

\* lines 423-431: the last screenshot of the task is saved; a file system
\* that refuses the directory or the file makes _save_screenshot raise
CaptureSave(disk_ok) ==
    /\ method.pc = "capture"
    /\ pc = "returned"
    /\ Truthy(result.screenshots)
    /\ LET output_path == OutputPath(method.filename)
           image_data == B64Decode(StripDataUri(LastEntry(result.screenshots)))
       IN  IF disk_ok
           THEN /\ files' = WriteFile(files, output_path, image_data)
                /\ method' = Idle("capture", Return(output_path))
           ELSE /\ files' = files
                /\ method' = Idle("capture",
                       Raised("RuntimeError", <<"Screenshot capture failed: ", "OSError">>))
    /\ pc' = "none"
    /\ UNCHANGED <<agent, auth_credentials, session_active, authenticated, sync_state,
                   provider_log>>

\* lines 424-426: the task returned no screenshot
CaptureEmpty ==
    /\ method.pc = "capture"
    /\ pc = "returned"
    /\ ~Truthy(result.screenshots)
    /\ method' = Idle("capture", Raised("RuntimeError",
           <<"Screenshot capture failed: ", "No screenshot was captured">>))
    /\ pc' = "none"
    /\ UNCHANGED <<agent, auth_credentials, session_active, authenticated, files,
                   sync_state, provider_log>>

\* lines 434-436: the task raised
CaptureTaskRaised ==
    /\ method.pc = "capture"
    /\ pc = "raised"
    /\ method' = Idle("capture", Raised("RuntimeError",
           <<"Screenshot capture failed: ">> \o error.value))
    /\ pc' = "none"
    /\ UNCHANGED <<agent, auth_credentials, session_active, authenticated, files,
                   sync_state, provider_log>>

NextCapturer ==
    \/ StartNoAuth
    \/ StartAuth
    \/ AuthReturn
    \/ AuthRaise
    \/ Stop
    \/ \E filename \in AnyFilenames : CaptureCall(filename)
    \/ \E disk_ok \in BOOLEAN : CaptureSave(disk_ok)
    \/ CaptureEmpty
    \/ CaptureTaskRaised
    \/ Start
    \/ LoopIterate
    \/ MaxIterationsReached
    \/ \E content \in LiveContents(iterations) : ApiReturn(content)
    \/ \E e \in ApiErrors : ApiRaise(e)
    \/ SkipBlock
    \/ ExecStart
    \/ \E works \in BOOLEAN : ExecReturn(works)
    \/ \E works \in BOOLEAN : ExecRaise(works)
    \/ TaskComplete
    \/ AppendToolResults

SpecCapturer == InitCapturer /\ [][NextCapturer]_vars

(***************************************************************************)
(* scripts/kb/sync.py sync_article_from_markdown over the sync state file  *)
(* of scripts/utils/state.py.  A call runs to its end before the next; the *)
(* provider's answers are the environment's.  provider_log keeps one entry *)
(* per call: the provider operation it made, if any, and how it ended.     *)
(***************************************************************************)
\* most sync calls in one run
MaxSyncs == 3

\* provider names a caller passes; get_provider knows the first only
ProviderNames == {"pylon", "wiki"}
ArticleKeys == {"dashboards", "getting-started"}

\* get_provider(provider_name, provider_config) is not None
ProviderKnown(provider_name) == provider_name = "pylon"

\* f"{provider_name}:{article_key}"
StateKey(provider_name, article_key) == <<provider_name, ":", article_key>>

\* state_data.get('articles', {}).get(state_key); None is the empty dict
ExistingArticle(articles, state_key) == Get(articles, state_key, EmptyDict)

\* a mutation of the test: the stored id is not looked at
HasArticleIdNever(existing_article) == FALSE

\* `existing_article and existing_article.get('article_id')`
HasArticleId(existing_article) ==
    /\ existing_article # EmptyDict
    /\ Truthy(Get(existing_article, "article_id", <<>>))

\* what provider.create_article returns: None, written as the empty dict,
\* or the article with the id of the provider's answer, which is None
\* (written <<>>) when the answer carries no id
CreateAnswers(n) ==
    { EmptyDict, [id |-> <<"article", ToString(n)>>, title |-> "Dashboards"],
      [id |-> <<>>, title |-> "Dashboards"] }

\* state.save_article: the entry is written with its sync time
save_article(articles, state_key, article_data, now) ==
    [k \in DOMAIN articles \cup {state_key} |->
        IF k = state_key THEN article_data @@ [synced_at |-> now] ELSE articles[k]]

\* state.update_article_sync_time: the entry's sync time, if there is one
update_article_sync_time(articles, state_key, now) ==
    IF state_key \in DOMAIN articles
    THEN [articles EXCEPT ![state_key] = [@ EXCEPT !.synced_at = now]]
    ELSE articles

\* one entry of provider_log
Synced(state_key, op, id, ok) == [key |-> state_key, op |-> op, id |-> id, ok |-> ok]

InitSync ==
    /\ client = "none"
    /\ tool_executor = FALSE
    /\ PYAUTOGUI_AVAILABLE = FALSE
    /\ Display
    /\ max_iterations = 0
    /\ verbose = FALSE
    /\ pc = "none"
    /\ NoTask
    /\ Alone
    /\ auth_credentials = EmptyDict
    /\ session_active = FALSE
    /\ authenticated = FALSE
    /\ files = EmptyDict
    /\ method = [pc |-> "none"]
    /\ sync_state = EmptyDict
    /\ provider_log = <<>>

\* lines 75-83: no provider, or no markdown file: None, nothing is called
SyncReturnsEarly(provider_name, article_key, file_exists) ==
    /\ Len(provider_log) < MaxSyncs
    /\ ~ProviderKnown(provider_name) \/ ~file_exists
    /\ provider_log' = Append(provider_log,
           Synced(StateKey(provider_name, article_key), "none", <<>>, FALSE))
    /\ UNCHANGED <<agent, pc, auth_credentials, session_active, authenticated, files,
                   method, sync_state>>

\* lines 108-118: the state holds an id: update_article
SyncUpdates(provider_name, article_key, success_) ==
    /\ Len(provider_log) < MaxSyncs
    /\ ProviderKnown(provider_name)
    /\ LET state_key == StateKey(provider_name, article_key)
           existing_article == ExistingArticle(sync_state, state_key)
       IN  /\ HasArticleId(existing_article)
           /\ provider_log' = Append(provider_log,
                  Synced(state_key, "update", existing_article.article_id, success_))
           /\ sync_state' =
                  IF success_
                  THEN update_article_sync_time(sync_state, state_key, Len(provider_log) + 1)
                  ELSE sync_state
    /\ UNCHANGED <<agent, pc, auth_credentials, session_active, authenticated, files,
                   method>>

\* lines 119-138: no id in the state: create_article, and the entry is saved
SyncCreates(provider_name, article_key, result_article) ==
    /\ Len(provider_log) < MaxSyncs
    /\ ProviderKnown(provider_name)
    /\ LET state_key == StateKey(provider_name, article_key)
           existing_article == ExistingArticle(sync_state, state_key)
       IN  /\ ~HasArticleId(existing_article)
           /\ provider_log' = Append(provider_log,
                  Synced(state_key, "create", Get(result_article, "id", <<>>),
                         result_article # EmptyDict))
           /\ sync_state' =
                  IF result_article # EmptyDict
                  THEN save_article(sync_state, state_key,
                           [article_id |-> result_article.id,
                            title |-> result_article.title,
                            provider |-> provider_name],
                           Len(provider_log) + 1)
                  ELSE sync_state
    /\ UNCHANGED <<agent, pc, auth_credentials, session_active, authenticated, files,
                   method>>

NextSync ==
    \E provider_name \in ProviderNames, article_key \in ArticleKeys :
        \/ \E file_exists \in BOOLEAN :
               SyncReturnsEarly(provider_name, article_key, file_exists)
        \/ \E success_ \in BOOLEAN : SyncUpdates(provider_name, article_key, success_)
        \/ \E result_article \in CreateAnswers(Len(provider_log) + 1) :
               SyncCreates(provider_name, article_key, result_article)

SpecSync == InitSync /\ [][NextSync]_vars

(***************************************************************************)
(* Properties.  They read the observers api_log and exec_log, which record *)
(* what the model answered and what the executor did, and compare them     *)
(* with what execute_task returned or raised.                              *)
(***************************************************************************)
Returned == pc = "returned"
Terminated == pc \in {"returned", "raised"}

\* the action requests of a model response
Requests(content) == SelectSeq(content, LAMBDA b : b.type = "tool_use")

\* model call n returned a response without any action request
StopsAt(n) ==
    /\ n \in 1..Len(api_log)
    /\ api_log[n].ok
    /\ Requests(api_log[n].content) = <<>>

\* model call n returned a response with at least one action request
ActsAt(n) ==
    /\ n \in 1..Len(api_log)
    /\ api_log[n].ok
    /\ Requests(api_log[n].content) # <<>>

\* the completed executor calls that failed
FailedCalls == { i \in 1..Len(exec_log) : exec_log[i].done /\ ~exec_log[i].out.ok }

\* the results of the screenshot actions the executor completed, in order
RECURSIVE ShotsOf(_)
ShotsOf(log) ==
    IF log = <<>> THEN <<>>
    ELSE LET e == log[1] IN
         (IF e.done /\ e.out.ok /\ e.action = "screenshot" THEN <<e.out.value>> ELSE <<>>)
             \o ShotsOf(Tail(log))

\* the tool_result a completed executor call must be answered with
ExpectedResult(e) ==
    IF e.out.ok
    THEN [type |-> "tool_result", tool_use_id |-> e.id, content |-> e.out.value]
    ELSE [type |-> "tool_result", tool_use_id |-> e.id,
          content |-> <<"Error: ">> \o e.out.value, is_error |-> TRUE]

\* the tool-result turn of iteration k, from the executor's side
ExpectedTurn(k) ==
    LET calls == SelectSeq(exec_log, LAMBDA e : e.iteration = k) IN
    [role |-> "user", content |-> [j \in 1..Len(calls) |-> ExpectedResult(calls[j])]]

\* the transcript after n full action turns
ExpectedTranscript(n) ==
    [t \in 1..(2 * n + 1) |->
        IF t = 1 THEN [role |-> "user", content |-> task_prompt]
        ELSE IF t % 2 = 0 THEN [role |-> "assistant", content |-> api_log[t \div 2].content]
        ELSE ExpectedTurn(t \div 2)]

\* C1: when the model requests actions in its first n-1 responses and none in
\* its n-th, no further model call is made and the task returns success=true
\* with iterations=n; for n = 1 the screenshot list is empty, and one
\* successful screenshot turn followed by a stop turn gives one screenshot.
C1_StopAtNthResponse ==
    \A n \in 1..Len(api_log) :
        (StopsAt(n) /\ \A j \in 1..(n - 1) : ActsAt(j)) =>
            /\ Len(api_log) = n
            /\ pc \in {"scan", "returned"}
            /\ n <= max_iterations
            /\ Returned =>
                /\ result.success = TRUE
                /\ result.iterations = n
                /\ (n = 1 => result.screenshots = <<>>)
                /\ (/\ n = 2
                    /\ Len(exec_log) = 1
                    /\ exec_log[1].action = "screenshot"
                    /\ exec_log[1].out.ok) => Len(result.screenshots) = 1

C1_Witness ==
    /\ Returned
    /\ max_iterations = MaxIter
    /\ StopsAt(2)
    /\ ActsAt(1)
    /\ result.iterations = 2
    /\ Len(result.screenshots) = 1

\* every response so far holds exactly one action request, a screenshot
AlwaysOneScreenshot ==
    \A n \in 1..Len(api_log) :
        /\ api_log[n].ok
        /\ Len(Requests(api_log[n].content)) = 1
        /\ "action" \in DOMAIN Requests(api_log[n].content)[1].input
        /\ Requests(api_log[n].content)[1].input.action = "screenshot"

C3_SuccessIffModelStopped ==
    Returned =>
        /\ result.success = (\E n \in 1..max_iterations : StopsAt(n))
        /\ max_iterations = 0 => (result.success = FALSE /\ api_log = <<>>)

C3_Witness ==
    /\ Returned
    /\ max_iterations = MaxIter
    /\ StopsAt(max_iterations)
    /\ result.success = TRUE

C5_RaisesMaxIterationsError ==
    (Terminated /\ tool_executor /\ max_iterations >= 1
                /\ Len(api_log) = max_iterations
                /\ \A n \in 1..max_iterations : ActsAt(n)) =>
        (pc = "raised" /\ error.type = "MaxIterationsError")

\* the error result of failed call e is in the conversation `msgs`
ErrorVisible(msgs, e) ==
    \E t \in 2..Len(msgs) :
        /\ msgs[t].role = "user"
        /\ \E j \in 1..Len(msgs[t].content) :
              LET r == msgs[t].content[j] IN
              /\ r.tool_use_id = e.id
              /\ "is_error" \in DOMAIN r
              /\ r.is_error = TRUE
              /\ r.content = <<"Error: ">> \o e.out.value

RECURSIVE RequestedIds(_)
RequestedIds(log) ==
    IF log = <<>> THEN <<>>
    ELSE LET reqs == Requests(log[1].content) IN
         [j \in 1..Len(reqs) |-> reqs[j].id] \o RequestedIds(Tail(log))

\* C7: the executor is called for the action requests in the order the
\* responses present them, and each call has completed before the next one
\* is started.
C7_RequestOrder ==
    /\ Len(exec_log) <= Len(RequestedIds(api_log))
    /\ \A i \in 1..Len(exec_log) : exec_log[i].id = RequestedIds(api_log)[i]
    /\ \A i \in 1..(Len(exec_log) - 1) :
          /\ exec_log[i].done
          /\ exec_log[i].end < exec_log[i + 1].start

C7_Witness ==
    \E i \in 1..(Len(exec_log) - 1) :
        /\ exec_log[i].iteration = exec_log[i + 1].iteration
        /\ exec_log[i].action # exec_log[i + 1].action
        /\ exec_log[i + 1].done

\* C8: without a tool executor execute_task raises at once: no model call
\* and no executor call is ever made, and nothing is returned.
C8_NoExecutorRaisesAtOnce ==
    ~tool_executor =>
        /\ api_log = <<>>
        /\ exec_log = <<>>
        /\ clock = 0
        /\ pc \in {"idle", "raised"}
        /\ result = NoResult
        /\ pc = "raised" => error.type = "RuntimeError"

C8_Witness == ~tool_executor /\ pc = "raised" /\ max_iterations > 0

\* C9: a failed model call is the last call of the task: it was made once
\* for its iteration, the task raises the very error the call raised, and no
\* model call or executor call starts after it.
C9_ModelFailureIsFatal ==
    \A n \in 1..Len(api_log) :
        (api_log[n].done /\ ~api_log[n].ok) =>
            /\ n = Len(api_log)
            /\ pc = "raised"
            /\ error = api_log[n].error
            /\ result = NoResult
            /\ Cardinality({m \in 1..Len(api_log) : api_log[m].iteration = api_log[n].iteration}) = 1
            /\ clock = api_log[n].end
            /\ \A i \in 1..Len(exec_log) : exec_log[i].done /\ exec_log[i].end < api_log[n].start

C9_Witness ==
    /\ pc = "raised"
    /\ Len(api_log) >= 2
    /\ exec_log # <<>>
    /\ error.type = "AuthenticationError"

\* C10: execute_action with a kind outside the ten recognised kinds raises
\* ValueError "Unknown action: <kind>", runs no handler and makes no
\* automation call, whatever the params.
C10_UnknownActionRejected ==
    \A i \in 1..Len(exec_log) :
        LET e == exec_log[i] IN
        (e.done /\ e.action \notin {"screenshot", "left_click", "right_click",
                                    "double_click", "left_click_drag", "type",
                                    "key", "mouse_move", "scroll", "wait"}) =>
            /\ ~e.out.ok
            /\ e.out.type = "ValueError"
            /\ e.out.value = <<"Unknown action: ", e.action>>
            /\ e.out.handler = "None"
            /\ e.out.backend = <<>>

C10_Witness ==
    \E i \in 1..Len(exec_log) :
        /\ exec_log[i].action = "unknown_kind"
        /\ exec_log[i].params = EmptyDict
        /\ ~exec_log[i].out.ok

\* the calls that handed a scaled coordinate to the automation backend
ScaledCalls ==
    {i \in 1..Len(exec_log) :
        /\ exec_log[i].done
        /\ exec_log[i].out.handler \in {"_click", "_right_click", "_double_click",
                                        "_mouse_move", "_click_drag", "_scroll"}
        /\ exec_log[i].out.backend # <<>>}

\* the coordinate call i asked for, and the one the backend was given
Asked(i) == exec_log[i].params.coordinate
Given(i) == exec_log[i].out.backend[1].args

\* r is v * real / virt rounded to a nearest integer (either way at a tie)
\* and clamped to [0, real - 1]
IsRoundedAndClamped(r, v, real, virt) ==
    \E n \in (-(MaxDim + 2) * (MaxDim + 2))..((MaxDim + 2) * (MaxDim + 2)) :
        /\ 2 * (n * virt - v * real) <= virt
        /\ 2 * (v * real - n * virt) <= virt
        /\ r = Max(0, Min(n, real - 1))

\* C11: on each axis the coordinate given to the backend is
\* round(virtual_coord * real_dimension / virtual_dimension) clamped to
\* [0, real_dimension - 1].
C11_ScalingRounds ==
    \A i \in ScaledCalls :
        /\ IsRoundedAndClamped(Given(i)[1], Asked(i)[1], screen_size[1], display_width)
        /\ IsRoundedAndClamped(Given(i)[2], Asked(i)[2], screen_size[2], display_height)

\* C12: (0,0) is scaled to (0,0), (W-1,H-1) to a point within (W'-1,H'-1),
\* and every coordinate, negative or past the display, reaches the backend
\* inside [0,W'-1] x [0,H'-1].
C12_ScaledWithinScreen ==
    \A i \in ScaledCalls :
        /\ Given(i)[1] \in 0..(screen_size[1] - 1)
        /\ Given(i)[2] \in 0..(screen_size[2] - 1)
        /\ Asked(i) = <<0, 0>> => Given(i) = <<0, 0>>
        /\ Asked(i) = <<display_width - 1, display_height - 1>> =>
              /\ Given(i)[1] <= screen_size[1] - 1
              /\ Given(i)[2] <= screen_size[2] - 1

C12_Witness ==
    \E i \in ScaledCalls :
        /\ Asked(i) = <<MaxDim + 1, -1>>
        /\ display_width < MaxDim
        /\ screen_size[1] > display_width
        /\ Given(i) = <<screen_size[1] - 1, 0>>

\* the completed calls of the kinds that need the automation backend
BackendKindCalls ==
    {i \in 1..Len(exec_log) :
        /\ exec_log[i].done
        /\ exec_log[i].action \in {"left_click", "right_click", "double_click",
                                   "left_click_drag", "mouse_move", "scroll",
                                   "type", "key"}}

\* the success result of completed call e is in the conversation `msgs`
SuccessVisible(msgs, e) ==
    /\ Len(msgs) >= 2 * e.iteration + 1
    /\ \E j \in 1..Len(msgs[2 * e.iteration + 1].content) :
          msgs[2 * e.iteration + 1].content[j] =
              [type |-> "tool_result", tool_use_id |-> e.id, content |-> e.out.value]

\* C13: without the automation backend, an action of any kind other than
\* screenshot and wait makes no automation call and returns a confirmation
\* string whatever its params, and the loop records a success result for it.
C13_UnavailableBackendSimulates ==
    ~PYAUTOGUI_AVAILABLE =>
        \A i \in BackendKindCalls :
            LET e == exec_log[i] IN
            /\ e.out.ok
            /\ e.out.type = "str"
            /\ e.out.value # <<>>
            /\ e.out.backend = <<>>
            /\ (pc = "scan" /\ iterations = e.iteration) =>
                  \E j \in 1..Len(tool_results) :
                      tool_results[j] = [type |-> "tool_result", tool_use_id |-> e.id,
                                         content |-> e.out.value]
            /\ (iterations > e.iteration \/ pc \in {"loop", "returned"}) =>
                  SuccessVisible(messages, e)
            /\ Returned => SuccessVisible(result.messages, e)

C13_Witness ==
    /\ ~PYAUTOGUI_AVAILABLE
    /\ Returned
    /\ \E i \in BackendKindCalls :
          /\ exec_log[i].action = "type"
          /\ "text" \notin DOMAIN exec_log[i].params
          /\ SuccessVisible(result.messages, exec_log[i])

\* the integer a decimal token stands for
ParseInt(tok) == CHOOSE n \in 0..(2 * MaxDim + 2) : ToString(n) = tok

\* the size of the image a screenshots entry decodes to, <<0, 0>> when the
\* entry is not a PNG data URI
DecodedSize(entry) ==
    IF /\ Len(entry) = 5
       /\ entry[1] = "data:image/png;base64,"
       /\ entry[2] = "PNG"
       /\ entry[4] = "x"
    THEN <<ParseInt(entry[3]), ParseInt(entry[5])>>
    ELSE <<0, 0>>

\* C14: every entry of the task's screenshots is a PNG data URI that
\* decodes to an image of display_width x display_height, whatever the size
\* of the raw capture.
C14_ScreenshotsHaveDisplaySize ==
    /\ \A j \in 1..Len(screenshots) :
          DecodedSize(screenshots[j]) = <<display_width, display_height>>
    /\ Returned =>
          \A j \in 1..Len(result.screenshots) :
              DecodedSize(result.screenshots[j]) = <<display_width, display_height>>

C14_Witness ==
    /\ Returned
    /\ grab_size = <<2 * display_width, 2 * display_height>>
    /\ Len(result.screenshots) >= 1
    /\ DecodedSize(result.screenshots[1]) = <<display_width, display_height>>

\* the executor calls made for the requests of model response k
CallsOf(k) == SelectSeq(exec_log, LAMBDA e : e.iteration = k)

\* the tool-result turn of response k has been appended
TurnDone(k) == Len(messages) >= 2 * k + 1

Precedes(a, b) == a.done /\ a.start < a.end /\ a.end < b.start

\* C16: at most one operation of a task is outstanding: a model call or an
\* executor call has completed before the next call of either kind starts.
C16_OneOperationAtATime ==
    /\ \A n \in 1..Len(api_log), m \in 1..Len(api_log) :
          n < m => Precedes(api_log[n], api_log[m])
    /\ \A i \in 1..Len(exec_log), j \in 1..Len(exec_log) :
          i < j => Precedes(exec_log[i], exec_log[j])
    /\ \A n \in 1..Len(api_log), i \in 1..Len(exec_log) :
          Precedes(api_log[n], exec_log[i]) \/ Precedes(exec_log[i], api_log[n])
    /\ \A n \in 1..Len(api_log) :
          ~api_log[n].done => (pc = "api" /\ api_log[n].start = clock)
    /\ \A i \in 1..Len(exec_log) :
          ~exec_log[i].done => (pc = "exec" /\ exec_log[i].start = clock)

C16_Witness ==
    /\ pc = "exec"
    /\ Len(exec_log) >= 2
    /\ Len(api_log) >= 2
    /\ exec_log[Len(exec_log)].iteration = 2
    /\ exec_log[1].iteration = 1

\* C17: one execute_task invocation makes at most max_iterations model
\* calls, returns the number of model calls it made as `iterations`, and
\* terminates when every model call and every executor call comes back.
C17_BoundedAndTerminates ==
    /\ [](/\ Len(api_log) <= max_iterations
          /\ iterations = Len(api_log)
          /\ Returned => result.iterations = Len(api_log))
    /\ <>Terminated

C17_Witness ==
    /\ Returned
    /\ max_iterations = MaxIter
    /\ result.iterations = MaxIter
    /\ Len(api_log) = MaxIter
    /\ Len(exec_log) = MaxIter
    /\ \E i \in 1..Len(exec_log) : ~exec_log[i].out.ok

\* s is an initial part of t
IsPrefix(s, t) == Len(s) <= Len(t) /\ SubSeq(t, 1, Len(s)) = s

\* C18: the conversation only grows: its first turn is the task prompt,
\* every step leaves the turns already there in place and unchanged, and a
\* model response is in the conversation before any of its actions is
\* executed.
C18_ConversationAppendOnly ==
    /\ [](/\ messages # <<>> => messages[1] = [role |-> "user", content |-> task_prompt]
          /\ \A i \in 1..Len(exec_log) :
                LET k == exec_log[i].iteration IN
                /\ Len(messages) >= 2 * k
                /\ messages[2 * k] = [role |-> "assistant", content |-> api_log[k].content]
          /\ Returned => result.messages = messages)
    /\ [][IsPrefix(messages, messages')]_vars

C18_Witness ==
    /\ Returned
    /\ Len(result.messages) = 2 * MaxIter + 1
    /\ result.messages[1].content = task_prompt
    /\ result.messages[2 * MaxIter + 1].role = "user"

\* the ids of a sequence of tool_use or tool_result blocks
UseIds(blocks) == [j \in 1..Len(blocks) |-> blocks[j].id]
ResultIds(blocks) == [j \in 1..Len(blocks) |-> blocks[j].tool_use_id]

\* the turns of the conversation that answer a request of response k
AnswerTurns(k) ==
    LET content == api_log[k].content
        ids == {content[j].id : j \in {j \in 1..Len(content) : content[j].type = "tool_use"}}
    IN  {t \in 3..Len(messages) :
            /\ messages[t].role = "user"
            /\ \E j \in 1..Len(messages[t].content) :
                  messages[t].content[j].tool_use_id \in ids}

\* C19: the results of a turn with action requests are appended as one new
\* turn holding one result per request, in request order, each with the id
\* of the request it answers; while the turn runs, the results so far answer
\* the first requests.
C19_ResultsAnswerRequests ==
    \A k \in 1..Len(api_log) :
        (api_log[k].ok /\ Requests(api_log[k].content) # <<>>) =>
            LET reqs == Requests(api_log[k].content) IN
            /\ (iterations = k /\ pc \in {"scan", "exec"}) =>
                  /\ AnswerTurns(k) = {}
                  /\ IsPrefix(ResultIds(tool_results), UseIds(reqs))
            /\ TurnDone(k) =>
                  /\ AnswerTurns(k) = {2 * k + 1}
                  /\ ResultIds(messages[2 * k + 1].content) = UseIds(reqs)
                  /\ \A j \in 1..Len(reqs) :
                        messages[2 * k + 1].content[j].type = "tool_result"

C19_Witness ==
    /\ TurnDone(2)
    /\ Len(Requests(api_log[2].content)) = 2
    /\ ResultIds(messages[5].content) = <<"toolu_2_1", "toolu_2_2">>
    /\ "is_error" \notin DOMAIN messages[5].content[1]

\* the completed calls of a recognised kind that raised
FailedKnownCalls ==
    {i \in FailedCalls :
        exec_log[i].action \in {"screenshot", "left_click", "right_click",
                                "double_click", "left_click_drag", "type", "key",
                                "mouse_move", "scroll", "wait"}}

\* the message of the original cause inside a wrapped error message
CauseOf(value) == SubSeq(value, 4, Len(value))

\* C20: an exception of a handler of a recognised kind leaves
\* execute_action as a RuntimeError "Failed to execute <kind>: <cause>",
\* whatever the type of the cause: a validation error, a capture failure or
\* an error of the automation backend.
C20_HandlerErrorsWrapped ==
    \A i \in FailedKnownCalls :
        LET e == exec_log[i]
            cause == CauseOf(e.out.value)
        IN  /\ e.out.type = "RuntimeError"
            /\ Len(e.out.value) >= 4
            /\ SubSeq(e.out.value, 1, 3) = <<"Failed to execute ", e.action, ": ">>
            /\ e.out.handler # "None"
            /\ e.action = "screenshot" =>
                  cause = <<"Screenshot capture failed: ", "automation backend error">>
            /\ e.action = "wait" => cause = <<"sleep length must be non-negative">>
            /\ (e.action = "type" /\ Get(e.params, "text", <<>>) = <<>>) =>
                  cause = <<"No text provided to type">>
            /\ (e.action = "key" /\ Get(e.params, "key", <<>>) = <<>>) =>
                  cause = <<"No key provided">>
            /\ (e.action \in {"left_click", "right_click", "double_click",
                              "mouse_move", "left_click_drag"}
                  /\ Len(Get(e.params, "coordinate", <<>>)) # 2) =>
                  cause[1] = "Invalid coordinate: "
            /\ e.out.backend # <<>> /\ e.action \notin {"screenshot", "wait"} =>
                  cause = <<"automation backend error">>

C20_Witness ==
    \E i \in FailedKnownCalls :
        /\ exec_log[i].action = "type"
        /\ exec_log[i].params = [text |-> <<>>]
        /\ exec_log[i].out.value =
              <<"Failed to execute ", "type", ": ", "No text provided to type">>

\* the completed type calls whose text is empty or missing
EmptyTypeCalls ==
    {i \in 1..Len(exec_log) :
        /\ exec_log[i].done
        /\ exec_log[i].action = "type"
        /\ Get(exec_log[i].params, "text", <<>>) = <<>>}

\* C21 as stated: a type action whose text is empty or missing raises and
\* emits no keystrokes.
C21_EmptyTextAlwaysFails ==
    \A i \in EmptyTypeCalls :
        /\ ~exec_log[i].out.ok
        /\ exec_log[i].out.backend = <<>>

\* C21 as amended: with the automation backend available, a type action
\* whose text is empty or missing raises "Failed to execute type: No text
\* provided to type"; without the backend it returns the simulated
\* confirmation; it emits no keystrokes in either case.
C21_EmptyTextFailsWithBackend ==
    \A i \in EmptyTypeCalls :
        LET out == exec_log[i].out IN
        /\ out.backend = <<>>
        /\ PYAUTOGUI_AVAILABLE =>
              /\ ~out.ok
              /\ out.type = "RuntimeError"
              /\ out.value = <<"Failed to execute ", "type", ": ", "No text provided to type">>
        /\ ~PYAUTOGUI_AVAILABLE =>
              /\ out.ok
              /\ out.value = <<"Text typing simulated (pyautogui not available)">>

C21_Witness ==
    /\ PYAUTOGUI_AVAILABLE
    /\ \E i \in EmptyTypeCalls :
          /\ exec_log[i].params = EmptyDict
          /\ ~exec_log[i].out.ok

\* the virtual display the running task's executor was constructed with
OwnDisplay == IF task = 1 THEN <<MaxDim, MaxDim - 1>> ELSE <<MaxDim - 1, MaxDim>>

\* C22: of two execute_task invocations that run at once on separate client
\* and executor instances, each keeps its own conversation, screenshot list,
\* iteration counter and display descriptor: at every point these are what
\* the task's own model responses and executor results make them, however
\* the steps of the other task fall in between, and so is the result.
C22_TasksShareNoState ==
    /\ <<display_width, display_height>> = OwnDisplay
    /\ iterations = Len(api_log)
    /\ screenshots = ShotsOf(exec_log)
    /\ \A j \in 1..Len(screenshots) : DecodedSize(screenshots[j]) = OwnDisplay
    /\ Len(messages) <= 2 * Len(api_log) + 1
    /\ \A t \in 1..Len(messages) : messages[t] = ExpectedTranscript(Len(api_log))[t]
    /\ Returned =>
          /\ result.messages = messages
          /\ result.screenshots = screenshots
          /\ result.iterations = iterations

C22_Witness ==
    /\ task = 2
    /\ Returned
    /\ Len(result.screenshots) = 1
    /\ other.pc = "exec"
    /\ Len(other.messages) = 2
    /\ other.messages # SubSeq(result.messages, 1, 2)

\* the kinds execute_action has a handler for
HandledKinds == {a \in AnyActions \cup GeminiActionEnum : ActionMapGet(a) # "None"}

\* the executor calls made for the model's function calls
SchemaCallsDone ==
    {i \in 1..Len(exec_log) : exec_log[i].id = "call" /\ exec_log[i].done}

\* C23: the action vocabulary is one fixed set of ten kinds: the kinds the
\* executor has handlers for are the kinds of the action enum of the schema
\* sent to the model, and every request with a kind of that enum reaches
\* the executor under the same name and is run by a handler, never rejected
\* as unknown.
C23_OneVocabulary ==
    /\ Cardinality(GeminiActionEnum) = 10
    /\ HandledKinds = GeminiActionEnum
    /\ ActionKinds = GeminiActionEnum
    /\ \A i \in SchemaCallsDone :
          LET e == exec_log[i] IN
          e.params.action \in GeminiActionEnum =>
              /\ e.action = e.params.action
              /\ e.out.handler = ActionMapGet(e.params.action)
              /\ e.out.handler # "None"
              /\ ~(e.out.type = "ValueError")

C23_Witness ==
    \E i \in SchemaCallsDone :
        /\ exec_log[i].params.action = "left_click_drag"
        /\ exec_log[i].out.handler = "_click_drag"
        /\ exec_log[i].out.ok

\* the executor calls made for screenshot requests
ScreenshotCalls == {i \in 1..Len(exec_log) : exec_log[i].action = "screenshot"}

\* the non-empty results of the screenshot calls that completed, in order
RECURSIVE NonEmptyShots(_)
NonEmptyShots(log) ==
    IF log = <<>> THEN <<>>
    ELSE LET e == log[1] IN
         (IF e.action = "screenshot" /\ e.done /\ e.out.ok /\ Truthy(e.out.value)
          THEN <<e.out.value>> ELSE <<>>) \o NonEmptyShots(Tail(log))

IsToolResultTurn(m, t) ==
    /\ t >= 3
    /\ t <= Len(m)
    /\ m[t].role = "user"
    /\ m[t].content # <<>>
    /\ \A j \in 1..Len(m[t].content) : m[t].content[j].type = "tool_result"

\* user, assistant, user, ... from the first turn on
Alternates(m) ==
    \A t \in 1..Len(m) : m[t].role = (IF t % 2 = 1 THEN "user" ELSE "assistant")

\* C25 as stated: the returned transcript alternates roles from a user turn
\* on; it has 2*n turns and ends with an assistant turn when the task
\* succeeds at iteration n, and 2*max_iterations+1 turns ending with a
\* tool-result turn when the budget is exhausted.
C25_TranscriptShape ==
    Returned =>
        LET m == result.messages IN
        /\ Alternates(m)
        /\ result.success =>
              /\ Len(m) = 2 * result.iterations
              /\ m[Len(m)].role = "assistant"
        /\ ~result.success =>
              /\ Len(m) = 2 * max_iterations + 1
              /\ IsToolResultTurn(m, Len(m))

\* C25 as amended: the same, where the exhausted transcript ends with a
\* tool-result turn when max_iterations is at least 1 and is the lone user
\* prompt when max_iterations is 0.
C25_TranscriptShapeFromOne ==
    Returned =>
        LET m == result.messages IN
        /\ Alternates(m)
        /\ m[1].content = task_prompt
        /\ \A t \in 3..Len(m) : t % 2 = 1 => IsToolResultTurn(m, t)
        /\ result.success =>
              /\ Len(m) = 2 * result.iterations
              /\ m[Len(m)].role = "assistant"
        /\ ~result.success =>
              /\ Len(m) = 2 * max_iterations + 1
              /\ max_iterations >= 1 => IsToolResultTurn(m, Len(m))
              /\ max_iterations = 0 => m = <<[role |-> "user", content |-> task_prompt]>>

C25_Witness ==
    /\ Returned
    /\ ~result.success
    /\ max_iterations = 2
    /\ Len(result.messages) = 5
    /\ IsToolResultTurn(result.messages, 5)

\* the executor calls made for tool-use blocks whose input has no `action`
ActionlessCalls == {i \in 1..Len(exec_log) : "action" \notin DOMAIN exec_log[i].params}

Scans == SelectSeq(api_log, LAMBDA s : s.kind = "turn" /\ s.done /\ s.ok)

\* the function-response messages the Gemini loop sent
Replies == SelectSeq(api_log, LAMBDA s : s.kind = "function_responses")

\* scanned response n holds no function call
GeminiStopsAt(n) == n \in 1..Len(Scans) /\ FunctionCalls(Scans[n].content) = <<>>

\* success=true with iterations=n exactly when response n holds no function
\* call, otherwise success=false with iterations=max_iterations
GeminiStopRule ==
    /\ \A n \in 1..Len(Scans) :
          (GeminiStopsAt(n) /\ Terminated) =>
              (Returned /\ result.success /\ result.iterations = n)
    /\ Returned =>
          /\ result.success => GeminiStopsAt(result.iterations)
          /\ ~result.success =>
                (result.iterations = max_iterations /\ \A n \in 1..Len(Scans) : ~GeminiStopsAt(n))

\* a failed executor call is answered with an error function response and
\* does not end the task
GeminiFailureReported ==
    \A i \in 1..Len(exec_log) :
        LET e == exec_log[i] IN
        (e.id = "call" /\ e.done /\ ~e.out.ok) =>
            /\ (pc = "g_scan" /\ iterations = e.iteration) =>
                  \E j \in 1..Len(tool_outputs) :
                      tool_outputs[j] = [name |-> "perform_action", key |-> "error",
                                         value |-> e.out.value]
            /\ pc = "raised" => error = api_log[Len(api_log)].error

\* the reply to scanned response k carries one function response per call
GeminiOneResponsePerCall ==
    \A r \in 1..Len(Replies) :
        LET k == Replies[r].iteration IN
        Len(Replies[r].sent) = Len(FunctionCalls(Scans[k].content))

\* C27: the Gemini loop ends as the Claude loop does: success=true with
\* iterations=n exactly when the n-th scanned response holds no function
\* call, otherwise success=false with iterations=max_iterations; a failed
\* executor call is reported as an error function response and the loop
\* goes on; every function call of a scanned response gets exactly one
\* function response.
C27_GeminiSameTerminationRule ==
    /\ GeminiStopRule
    /\ GeminiFailureReported
    /\ GeminiOneResponsePerCall

\* the file a capture under this name is saved as
SavedAs(filename) ==
    IF filename \in {<<"home">>, <<"home", ".png">>}
    THEN <<"output/screenshots", "/", "home", ".png">>
    ELSE <<"output/screenshots", "/", "settings", ".png">>

\* the image the last screenshot of a task result encodes
LastImage(res) ==
    LET last == res.screenshots[Len(res.screenshots)] IN
    [bytes |-> IF last[1] = "data:image/png;base64," THEN Tail(last) ELSE last]

\* capture() ends after its task returned
CaptureEnds == method.pc = "capture" /\ method'.pc = "idle" /\ pc = "returned"

\* C28: when the task of capture() returns a non-empty screenshot list,
\* with success=true or with the budget exhausted, capture writes the image
\* of the list's last entry to <output_dir>/<filename>.png and returns that
\* path (unless the file system refuses the write, when it raises and
\* writes nothing); when the list is empty it raises and writes no file.
C28_CaptureSavesLastScreenshot ==
    [][CaptureEnds =>
          IF result.screenshots # <<>>
          THEN \/ /\ method'.out.ok
                  /\ method'.out.value = SavedAs(method.filename)
                  /\ files' = [p \in DOMAIN files \cup {SavedAs(method.filename)} |->
                                  IF p = SavedAs(method.filename)
                                  THEN LastImage(result) ELSE files[p]]
               \/ /\ ~method'.out.ok
                  /\ method'.out.value = <<"Screenshot capture failed: ", "OSError">>
                  /\ files' = files
          ELSE /\ ~method'.out.ok
               /\ method'.out.type = "RuntimeError"
               /\ method'.out.value =
                      <<"Screenshot capture failed: ", "No screenshot was captured">>
               /\ files' = files]_vars

C28_Witness ==
    /\ method.pc = "idle"
    /\ method.name = "capture"
    /\ method.out.ok
    /\ method.out.value = <<"output/screenshots", "/", "home", ".png">>
    /\ method.filename = <<"home", ".png">>
    /\ result # NoResult
    /\ ~result.success
    /\ Len(result.screenshots) >= 2
    /\ files[method.out.value] = LastImage(result)

\* how the last capturer method ended
Ended(name, ok) == method.pc = "idle" /\ method.name = name /\ method.out.ok = ok

\* after start() returns the session is active, and authenticated exactly
\* when the credentials are enabled; after stop() it is neither
SessionAfterReturn ==
    /\ Ended("start", TRUE) =>
          /\ session_active
          /\ authenticated <=> AuthEnabled(auth_credentials)
    /\ Ended("stop", TRUE) => (~session_active /\ ~authenticated)
    /\ Ended("start", FALSE) =>
          /\ method.out.type = "RuntimeError"
          /\ method.out.value = <<"Authentication failed: ">> \o error.value

\* start() ends because the login task raised
StartFails == method.pc = "auth" /\ method'.pc = "idle" /\ pc = "raised"

\* C29 as stated: after start() returns, session_active is true and
\* authenticated is true exactly when the credentials are enabled, whatever
\* the login task's success flag; when the login task raises, start() raises
\* and session_active is false; after stop() both are false.
C29_SessionState ==
    /\ SessionAfterReturn
    /\ Ended("start", FALSE) => ~session_active

\* C29 as amended: the same, where a start() that raises leaves
\* session_active and authenticated as they were before the call.
C29_SessionStateKeptOnFailure ==
    /\ []SessionAfterReturn
    /\ [][StartFails =>
            /\ ~method'.out.ok
            /\ session_active' = session_active
            /\ authenticated' = authenticated]_vars

C29_Witness ==
    /\ Ended("start", TRUE)
    /\ AuthEnabled(auth_credentials)
    /\ result # NoResult
    /\ ~result.success
    /\ result.iterations = MaxIter
    /\ authenticated
    /\ session_active

\* the state file holds an article id under this key
StoredId(key) ==
    IF key \in DOMAIN sync_state /\ sync_state[key].article_id # <<>>
    THEN sync_state[key].article_id ELSE <<>>

\* call i created the article: the provider returned it with an id
Created(i) ==
    /\ provider_log[i].op = "create"
    /\ provider_log[i].ok
    /\ provider_log[i].id # <<>>

\* after a successful create no later sync of the key creates again: each
\* one that reaches the provider updates the id stored by that create
UpdatesAfterCreate ==
    \A i \in 1..Len(provider_log) :
        Created(i) =>
            /\ StoredId(provider_log[i].key) = provider_log[i].id
            /\ \A j \in (i + 1)..Len(provider_log) :
                  provider_log[j].key = provider_log[i].key =>
                      /\ provider_log[j].op # "create"
                      /\ provider_log[j].op = "update" =>
                            provider_log[j].id = provider_log[i].id

\* the sync call of this step, and what it did to the state
SyncStep ==
    LET c == provider_log'[Len(provider_log')] IN
    /\ c.op = "create" => StoredId(c.key) = <<>>
    /\ c.op = "update" => (StoredId(c.key) # <<>> /\ c.id = StoredId(c.key))
    /\ ~c.ok => sync_state' = sync_state
    /\ \A k \in DOMAIN sync_state : k # c.key => sync_state'[k] = sync_state[k]

====
